---- MODULE Spec2Model ----
(***************************************************************************)
(* State-machine model of the chat session controller (hooks/useChat.ts):  *)
(* the streaming-listener effect, the chunk / error handlers, sendMessage, *)
(* startNewChat and loadChat, together with the backend calls they leave   *)
(* in flight.                                                              *)
(*                                                                         *)
(* Strings the code inspects character by character (the message text,     *)
(* the streamed content) are sequences of one-character strings, so that   *)
(* trim() and += are computed and not assumed.  React state is read as     *)
(* of the latest render: every step of the model is followed by a render.  *)
(***************************************************************************)
EXTENDS Integers, Sequences, FiniteSets, TLC

\* ---------------------------------------------------------------- bounds
MaxSetups == 2     \* runs of the streaming-listener effect (mount, remount, ...)
MaxMsgs == 2       \* length of the visible message list
MaxAcc == 2        \* characters held by the streaming accumulator
MaxPending == 1    \* backend calls of one kind in flight
MaxChatOps == 2    \* chat actions (rename, delete, move, remove) in flight
MaxSubMsgs == 1    \* replies committed while the effect is run and run again
MaxStreams == 2    \* reply streams the backend has running

\* ---------------------------------------------------------------- values
NULL == "null"
Setups == 1..MaxSetups
WS == " "
Texts == {<<>>, <<WS>>, <<"h">>, <<WS, "h", WS>>}
ChunkEvents ==
  {[content |-> <<"a">>, done |-> FALSE], [content |-> <<"b">>, done |-> TRUE],
   [content |-> <<>>, done |-> TRUE]}
ChatIds == {"c1", "c2"}
Errors == {"e1", "e2"}
WorkspaceIds == {"w1", "w2"}
FolderIds == {"fA", "fB", "fC"}
FolderNames == {"n1", "n2"}

VARIABLES
  \* useChat state (useState / useRef)
  messages, inputValue, models, selectedModel, isStreaming, currentChatId,
  streamingContent, streamingContentRef, error, chatHistory,
  searchQuery, searchResults,
  \* useWorkspace state: the active workspace id (the prop of useChat), the
  \* workspace list, and the workspace handlers of the view at their awaits
  activeWorkspaceId, workspaces, wsOps,
  \* the workspaces index the backend persists: its workspaces and the active one
  backend,
  \* useFolder state: the folder cache, the workspace id its effect last ran for,
  \* its detached get_folders_for_workspace calls and its mutations at their awaits
  folders, folderWs, folderCalls, folderOps,
  \* the chat actions of useChat (rename, delete, move, remove) at their awaits
  chatOps,
  \* the chats and folders the backend persists for the workspace
  backendChats, backendFolders,
  \* streaming-listener effect: one closure per run of the effect
  mounted, pc, cancelled, unlistenChunk, unlistenError,
  \* event bridge: listeners registered with the backend
  chunkReg, errorReg,
  \* backend calls in flight, and the reply streams the backend has running
  sendCalls, loadCalls, refreshCalls, modelsCall, searchCalls, historyCalls, streams,
  \* the last operation, its inputs and what it found
  last

ctrl == <<messages, inputValue, models, selectedModel, isStreaming, currentChatId,
          streamingContent, streamingContentRef, error, chatHistory,
          searchQuery, searchResults>>
effect == <<mounted, pc, cancelled, unlistenChunk, unlistenError>>
bridge == <<chunkReg, errorReg>>
calls == <<sendCalls, loadCalls, refreshCalls, modelsCall, searchCalls, historyCalls,
          streams>>
organiser == <<folders, folderWs, folderCalls, folderOps, chatOps, backendChats,
              backendFolders>>
store == <<workspaces, wsOps, backend, organiser>>
vars == <<ctrl, activeWorkspaceId, store, effect, bridge, calls, last>>

\* The controller state as one record (the state a handler starts from).
Ctrl ==
  [messages |-> messages, inputValue |-> inputValue, models |-> models,
   selectedModel |-> selectedModel, isStreaming |-> isStreaming,
   currentChatId |-> currentChatId, streamingContent |-> streamingContent,
   streamingContentRef |-> streamingContentRef, error |-> error,
   chatHistory |-> chatHistory, searchQuery |-> searchQuery,
   searchResults |-> searchResults, sendCalls |-> sendCalls,
   loadCalls |-> loadCalls, refreshCalls |-> refreshCalls,
   searchCalls |-> searchCalls, historyCalls |-> historyCalls, streams |-> streams]

\* ---------------------------------------------------------------- helpers
RemoveAt(q, i) == SubSeq(q, 1, i - 1) \o SubSeq(q, i + 1, Len(q))

RECURSIVE TrimStart(_)
TrimStart(t) == IF t # <<>> /\ Head(t) = WS THEN TrimStart(Tail(t)) ELSE t

RECURSIVE TrimEnd(_)
TrimEnd(t) ==
  IF t # <<>> /\ t[Len(t)] = WS THEN TrimEnd(SubSeq(t, 1, Len(t) - 1)) ELSE t

\* String.prototype.trim
Trim(t) == TrimEnd(TrimStart(t))

ChatMeta(id, model) == [id |-> id, model_used |-> model, folder_id |-> NULL]
ChatInFolder(id, model, folderId) == [ChatMeta(id, model) EXCEPT !.folder_id = folderId]
FolderMeta(id, name) == [id |-> id, name |-> name]
MessageArrays ==
  {<<>>, <<[role |-> "user", content |-> <<"h">>]>>,
   <<[role |-> "user", content |-> <<"h">>], [role |-> "assistant", content |-> <<"a">>]>>}

\* searchResults: null (not searching) is <<>>, an array a (also the empty one) is <<a>>.
NoResults == <<>>
Results(a) == <<a>>

\* ---------------------------------------------------------------- initial state
Init ==
  /\ messages = <<>>
  /\ inputValue = <<>>
  /\ models = <<>>
  /\ selectedModel = ""
  /\ isStreaming = FALSE
  /\ currentChatId = NULL
  /\ streamingContent = <<>>
  /\ streamingContentRef = <<>>
  /\ error = NULL
  /\ chatHistory = <<>>
  /\ searchQuery = <<>>
  /\ searchResults = NoResults
  /\ activeWorkspaceId = ""
  /\ mounted = 0
  /\ pc = [s \in Setups |-> "idle"]
  /\ cancelled = [s \in Setups |-> FALSE]
  /\ unlistenChunk = [s \in Setups |-> FALSE]
  /\ unlistenError = [s \in Setups |-> FALSE]
  /\ chunkReg = [s \in Setups |-> "none"]
  /\ errorReg = [s \in Setups |-> "none"]
  /\ sendCalls = <<>>
  /\ loadCalls = <<>>
  /\ refreshCalls = <<>>
  /\ modelsCall = "pending"
  /\ searchCalls = <<>>
  /\ historyCalls = <<>>
  /\ streams = 0
  /\ workspaces = {}
  /\ wsOps = <<>>
  /\ backend = [workspaces |-> {"w1"}, active |-> "w1"]
  /\ folders = <<>>
  /\ folderWs = ""
  /\ folderCalls = <<>>
  /\ folderOps = <<>>
  /\ chatOps = <<>>
  /\ backendChats = <<ChatInFolder("c1", "m1", "fA"), ChatMeta("c2", "m1")>>
  /\ backendFolders = <<FolderMeta("fA", "n1"), FolderMeta("fB", "n1")>>
  /\ last = [op |-> "init"]

\* ---------------------------------------------------------------- streaming-listener effect

\* An UnlistenFn: removes the listener from the bridge; a second call finds nothing.
Unlisten(reg, s) == IF reg[s] = "on" THEN [reg EXCEPT ![s] = "off"] ELSE reg

\* listen(event, handler): the handler is live on the bridge from the call on; the
\* promise of its UnlistenFn resolves later.
Listen(reg, s) == [reg EXCEPT ![s] = "on"]

\* The effect body: a fresh closure (cancelled = false, both handles null), then
\* setup() runs up to its first await: listen("chat-stream-chunk") is called.
\* React runs the cleanup of the previous run before it runs the effect again.
Setup(s) ==
  /\ mounted = 0
  /\ pc[s] = "idle"
  /\ \A t \in Setups : t < s => pc[t] # "idle"
  /\ mounted' = s
  /\ pc' = [pc EXCEPT ![s] = "awaitChunk"]
  /\ chunkReg' = Listen(chunkReg, s)
  /\ last' = [op |-> "effect"]
  /\ UNCHANGED <<ctrl, activeWorkspaceId, store, cancelled, unlistenChunk, unlistenError,
                 errorReg, calls>>

\* The cleanup without the flag: only the handles known so far are unlistened
\* (the defect the comment in the source describes).
CleanupKnownHandlesOnly(s) ==
  /\ mounted = s
  /\ mounted' = 0
  /\ chunkReg' = IF unlistenChunk[s] THEN Unlisten(chunkReg, s) ELSE chunkReg
  /\ errorReg' = IF unlistenError[s] THEN Unlisten(errorReg, s) ELSE errorReg
  /\ last' = [op |-> "effect"]
  /\ UNCHANGED <<ctrl, activeWorkspaceId, store, pc, cancelled, unlistenChunk, unlistenError,
                 calls>>

\* The cleanup the effect returns: cancelled = true; unlistenChunk?.(); unlistenError?.()
Cleanup(s) ==
  /\ mounted = s
  /\ mounted' = 0
  /\ cancelled' = [cancelled EXCEPT ![s] = TRUE]
  /\ chunkReg' = IF unlistenChunk[s] THEN Unlisten(chunkReg, s) ELSE chunkReg
  /\ errorReg' = IF unlistenError[s] THEN Unlisten(errorReg, s) ELSE errorReg
  /\ last' = [op |-> "effect"]
  /\ UNCHANGED <<ctrl, activeWorkspaceId, store, pc, unlistenChunk, unlistenError, calls>>

\* listen("chat-stream-chunk") resolves: the handle is stored and setup() goes on
\* to call listen("chat-stream-error").
ResolveChunk(s) ==
  /\ pc[s] = "awaitChunk"
  /\ unlistenChunk' = [unlistenChunk EXCEPT ![s] = TRUE]
  /\ pc' = [pc EXCEPT ![s] = "awaitError"]
  /\ errorReg' = Listen(errorReg, s)
  /\ last' = [op |-> "effect"]
  /\ UNCHANGED <<ctrl, activeWorkspaceId, store, mounted, cancelled, unlistenError, chunkReg,
                 calls>>

\* The end of setup() without the check of the flag.
ResolveErrorNoCheck(s) ==
  /\ pc[s] = "awaitError"
  /\ unlistenError' = [unlistenError EXCEPT ![s] = TRUE]
  /\ pc' = [pc EXCEPT ![s] = "done"]
  /\ last' = [op |-> "effect"]
  /\ UNCHANGED <<ctrl, activeWorkspaceId, store, mounted, cancelled, unlistenChunk, bridge, calls>>

\* listen("chat-stream-error") resolves: the handle is stored; if the effect was
\* cleaned up meanwhile both handles are unlistened at once.
ResolveError(s) ==
  /\ pc[s] = "awaitError"
  /\ unlistenError' = [unlistenError EXCEPT ![s] = TRUE]
  /\ pc' = [pc EXCEPT ![s] = "done"]
  /\ chunkReg' = IF cancelled[s] THEN Unlisten(chunkReg, s) ELSE chunkReg
  /\ errorReg' = IF cancelled[s] THEN Unlisten(errorReg, s) ELSE errorReg
  /\ last' = [op |-> "effect"]
  /\ UNCHANGED <<ctrl, activeWorkspaceId, store, mounted, cancelled, unlistenChunk, calls>>

\* ---------------------------------------------------------------- stream handlers

\* Writes a controller record back to the state variables.
SetCtrl(st) ==
  /\ messages' = st.messages
  /\ inputValue' = st.inputValue
  /\ models' = st.models
  /\ selectedModel' = st.selectedModel
  /\ isStreaming' = st.isStreaming
  /\ currentChatId' = st.currentChatId
  /\ streamingContent' = st.streamingContent
  /\ streamingContentRef' = st.streamingContentRef
  /\ error' = st.error
  /\ chatHistory' = st.chatHistory
  /\ searchQuery' = st.searchQuery
  /\ searchResults' = st.searchResults
  /\ sendCalls' = st.sendCalls
  /\ loadCalls' = st.loadCalls
  /\ refreshCalls' = st.refreshCalls
  /\ searchCalls' = st.searchCalls
  /\ historyCalls' = st.historyCalls
  /\ streams' = st.streams

\* The body committing only the last chunk: what was accumulated is lost.
ChunkBodyLastOnly(s, st, content, done) ==
  IF ~done
    THEN [st EXCEPT !.streamingContentRef = @ \o content,
                    !.streamingContent = st.streamingContentRef \o content]
    ELSE [st EXCEPT !.messages = Append(@, [role |-> "assistant", content |-> content]),
                    !.streamingContentRef = <<>>,
                    !.streamingContent = <<>>,
                    !.isStreaming = FALSE,
                    !.refreshCalls = Append(@, [s |-> s, stage |-> "workspaces"])]

\* The body showing the chunk that arrived instead of the accumulated text.
ChunkBodyShowsChunk(s, st, content, done) ==
  IF ~done
    THEN [st EXCEPT !.streamingContentRef = @ \o content,
                    !.streamingContent = content]
    ELSE [st EXCEPT !.messages = Append(@, [role |-> "assistant",
                                            content |-> st.streamingContentRef \o content]),
                    !.streamingContentRef = <<>>,
                    !.streamingContent = <<>>,
                    !.isStreaming = FALSE,
                    !.refreshCalls = Append(@, [s |-> s, stage |-> "workspaces"])]

\* The chunk handler body, past the check of the flag.
ChunkBody(s, st, content, done) ==
  IF ~done
    THEN [st EXCEPT !.streamingContentRef = @ \o content,
                    !.streamingContent = st.streamingContentRef \o content]
    ELSE [st EXCEPT !.messages = Append(@, [role |-> "assistant",
                                            content |-> st.streamingContentRef \o content]),
                    !.streamingContentRef = <<>>,
                    !.streamingContent = <<>>,
                    !.isStreaming = FALSE,
                    !.refreshCalls = Append(@, [s |-> s, stage |-> "workspaces"])]

\* The handler without the check of the flag.
ChunkHandlerNoFlag(s, st, content, done) == ChunkBody(s, st, content, done)

\* The handler given to listen("chat-stream-chunk") by run s of the effect.
ChunkHandler(s, st, content, done) ==
  IF cancelled[s] THEN st ELSE ChunkBody(s, st, content, done)

\* The body keeping the partial reply as a message.
ErrorBodyKeepsPartial(st, e) ==
  [st EXCEPT !.error = e, !.isStreaming = FALSE,
             !.messages = Append(@, [role |-> "assistant",
                                     content |-> st.streamingContentRef]),
             !.streamingContentRef = <<>>, !.streamingContent = <<>>]

\* The error handler body, past the check of the flag.
ErrorBody(st, e) ==
  [st EXCEPT !.error = e, !.isStreaming = FALSE,
             !.streamingContentRef = <<>>, !.streamingContent = <<>>]

\* The handler given to listen("chat-stream-error") by run s of the effect.
ErrorHandler(s, st, e) ==
  IF cancelled[s] THEN st ELSE ErrorBody(st, e)

ChunkListeners == {s \in Setups : chunkReg[s] = "on"}
ErrorListeners == {s \in Setups : errorReg[s] = "on"}

\* The bridge calls every registered listener of the event, in order of registration.
RECURSIVE EmitChunk(_, _, _, _)
EmitChunk(S, st, content, done) ==
  IF S = {} THEN st
  ELSE LET s == CHOOSE x \in S : \A y \in S : x <= y
       IN EmitChunk(S \ {s}, ChunkHandler(s, st, content, done), content, done)

RECURSIVE EmitError(_, _, _)
EmitError(S, st, e) ==
  IF S = {} THEN st
  ELSE LET s == CHOOSE x \in S : \A y \in S : x <= y
       IN EmitError(S \ {s}, ErrorHandler(s, st, e), e)

\* A reply stream of the backend ends (with its done event, its error event, or
\* with the rejection of the call that asked for it).
StreamEnded(st) == [st EXCEPT !.streams = IF @ > 0 THEN @ - 1 ELSE 0]

\* The backend emits one chat-stream-chunk event; done = true ends the reply.
DeliverChunk(content, done) ==
  /\ Len(streamingContentRef) + Len(content) <= MaxAcc
  /\ done => Len(messages) < MaxMsgs /\ Len(refreshCalls) < MaxPending
  /\ SetCtrl(EmitChunk(ChunkListeners, IF done THEN StreamEnded(Ctrl) ELSE Ctrl,
                       content, done))
  /\ last' = [op |-> "chunk", content |-> content, done |-> done]
  /\ UNCHANGED <<activeWorkspaceId, store, effect, bridge, modelsCall>>

\* The backend emits one chat-stream-error event.
DeliverError(e) ==
  /\ SetCtrl(EmitError(ErrorListeners, StreamEnded(Ctrl), e))
  /\ last' = [op |-> "error", error |-> e, partial |-> streamingContentRef]
  /\ UNCHANGED <<activeWorkspaceId, store, effect, bridge, modelsCall>>

\* ---------------------------------------------------------------- done-event refresh

\* get_all_workspaces of the chain resolves: the chats of the active workspace the
\* backend reports are fetched next, unless the run was cleaned up (then the chain
\* goes on with [] and its last step writes nothing).
RefreshWorkspacesResolve(i, w) ==
  /\ i \in DOMAIN refreshCalls
  /\ refreshCalls[i].stage = "workspaces"
  /\ refreshCalls' =
       IF cancelled[refreshCalls[i].s]
         THEN RemoveAt(refreshCalls, i)
         ELSE [refreshCalls EXCEPT ![i] = [s |-> @.s, stage |-> "chats", workspaceId |-> w]]
  /\ last' = [op |-> "refresh"]
  /\ UNCHANGED <<ctrl, activeWorkspaceId, store, effect, bridge, sendCalls, loadCalls,
                 modelsCall,
                 searchCalls, historyCalls, streams>>

\* get_chats_for_workspace of the chain resolves: if (!cancelled) setChatHistory(chats)
RefreshChatsResolve(i, chats) ==
  /\ i \in DOMAIN refreshCalls
  /\ refreshCalls[i].stage = "chats"
  /\ chatHistory' = IF cancelled[refreshCalls[i].s] THEN chatHistory ELSE chats
  /\ refreshCalls' = RemoveAt(refreshCalls, i)
  /\ last' = [op |-> "refresh"]
  /\ UNCHANGED <<messages, inputValue, models, selectedModel, isStreaming, currentChatId,
                 streamingContent, streamingContentRef, error, searchQuery, searchResults,
                 activeWorkspaceId, store, effect, bridge, sendCalls, loadCalls, modelsCall,
                 searchCalls, historyCalls, streams>>

\* Either call of the chain rejects: .catch(console.error)
RefreshReject(i) ==
  /\ i \in DOMAIN refreshCalls
  /\ refreshCalls' = RemoveAt(refreshCalls, i)
  /\ last' = [op |-> "refresh"]
  /\ UNCHANGED <<ctrl, activeWorkspaceId, store, effect, bridge, sendCalls, loadCalls,
                 modelsCall,
                 searchCalls, historyCalls, streams>>

\* ---------------------------------------------------------------- models

\* list_models resolves: setModels(result); the first model becomes the selection.
ModelsResolve(result) ==
  /\ modelsCall = "pending"
  /\ modelsCall' = "done"
  /\ models' = result
  /\ selectedModel' = IF Len(result) > 0 THEN result[1] ELSE selectedModel
  /\ last' = [op |-> "models"]
  /\ UNCHANGED <<messages, inputValue, isStreaming, currentChatId, streamingContent,
                 streamingContentRef, error, chatHistory, searchQuery, searchResults,
                 activeWorkspaceId, store, effect, bridge, sendCalls, loadCalls, refreshCalls,
                 searchCalls, historyCalls, streams>>

\* list_models rejects: setError(String(err))
ModelsReject(e) ==
  /\ modelsCall = "pending"
  /\ modelsCall' = "done"
  /\ error' = e
  /\ last' = [op |-> "modelsFailed"]
  /\ UNCHANGED <<messages, inputValue, models, selectedModel, isStreaming, currentChatId,
                 streamingContent, streamingContentRef, chatHistory, searchQuery,
                 searchResults, activeWorkspaceId, store, effect, bridge, sendCalls, loadCalls,
                 refreshCalls,
                 searchCalls, historyCalls, streams>>

\* setSelectedModel, from the model picker (a model of the list).
SetSelectedModel(m) ==
  /\ \E k \in DOMAIN models : models[k] = m
  /\ selectedModel # m
  /\ selectedModel' = m
  /\ last' = [op |-> "setSelectedModel"]
  /\ UNCHANGED <<messages, inputValue, models, isStreaming, currentChatId,
                 streamingContent, streamingContentRef, error, chatHistory, searchQuery,
                 searchResults, activeWorkspaceId, store, effect, bridge, calls>>

\* setInputValue, from the text area.
SetInputValue(v) ==
  /\ inputValue # v
  /\ inputValue' = v
  /\ last' = [op |-> "setInputValue"]
  /\ UNCHANGED <<messages, models, selectedModel, isStreaming, currentChatId,
                 streamingContent, streamingContentRef, error, chatHistory, searchQuery,
                 searchResults, activeWorkspaceId, store, effect, bridge, calls>>

\* ---------------------------------------------------------------- chat history

\* refreshChatHistory(wsId) up to its await: nothing without an id, else
\* invoke("get_chats_for_workspace").
RefreshChatHistory(st, id) ==
  IF id = "" THEN st
  ELSE [st EXCEPT !.historyCalls = Append(@, [workspaceId |-> id])]

\* refreshWorkspaces() of the workspace store resolves: the list and the active id
\* are stored; the change of the active id runs the effect of useChat that calls
\* refreshChatHistory(activeWorkspaceId).
WorkspaceRefreshed(ws, w) ==
  /\ w \in ws
  /\ activeWorkspaceId # w
  /\ Len(historyCalls) < MaxPending
  /\ workspaces' = ws
  /\ activeWorkspaceId' = w
  /\ SetCtrl(RefreshChatHistory(Ctrl, w))
  /\ last' = [op |-> "workspace"]
  /\ UNCHANGED <<organiser, wsOps, backend, effect, bridge, modelsCall>>

\* get_chats_for_workspace of refreshChatHistory resolves: setChatHistory(chats)
HistoryResolve(i, chats) ==
  /\ i \in DOMAIN historyCalls
  /\ SetCtrl([Ctrl EXCEPT !.historyCalls = RemoveAt(@, i), !.chatHistory = chats])
  /\ last' = [op |-> "history"]
  /\ UNCHANGED <<activeWorkspaceId, store, effect, bridge, modelsCall>>

\* get_chats_for_workspace of refreshChatHistory rejects: console.error
HistoryReject(i) ==
  /\ i \in DOMAIN historyCalls
  /\ SetCtrl([Ctrl EXCEPT !.historyCalls = RemoveAt(@, i)])
  /\ last' = [op |-> "history"]
  /\ UNCHANGED <<activeWorkspaceId, store, effect, bridge, modelsCall>>

\* ---------------------------------------------------------------- search

\* if (!activeWorkspaceId || !query.trim())
SearchReturnsEarly(wsId, query) == wsId = "" \/ Trim(query) = <<>>

\* searchChats(query) up to its await (or its early return).
SearchStart(st, wsId, query) ==
  IF SearchReturnsEarly(wsId, query)
    THEN [st EXCEPT !.searchQuery = query, !.searchResults = NoResults]
    ELSE [st EXCEPT !.searchQuery = query,
                    !.searchCalls = Append(@, [workspaceId |-> wsId, query |-> query])]

SearchChats(query) ==
  /\ ~SearchReturnsEarly(activeWorkspaceId, query) => Len(searchCalls) < MaxPending
  /\ SetCtrl(SearchStart(Ctrl, activeWorkspaceId, query))
  /\ last' = [op |-> "searchChats", query |-> query,
              early |-> SearchReturnsEarly(activeWorkspaceId, query)]
  /\ UNCHANGED <<activeWorkspaceId, store, effect, bridge, modelsCall>>

\* The continuation of searchChats on success: setSearchResults(results)
SearchResolved(st, results) == [st EXCEPT !.searchResults = Results(results)]

\* The catch leaving the matches of the search before on the screen.
SearchRejectedKeepsResults(st) == st

\* The catch of searchChats: setSearchResults(null)
SearchRejected(st) == [st EXCEPT !.searchResults = NoResults]

\* search_chats resolves with the matches.
SearchResolve(i, results) ==
  /\ i \in DOMAIN searchCalls
  /\ SetCtrl(SearchResolved([Ctrl EXCEPT !.searchCalls = RemoveAt(@, i)], results))
  /\ last' = [op |-> "searchResolve", query |-> searchCalls[i].query,
              returned |-> results]
  /\ UNCHANGED <<activeWorkspaceId, store, effect, bridge, modelsCall>>

\* search_chats rejects.
SearchReject(i) ==
  /\ i \in DOMAIN searchCalls
  /\ SetCtrl(SearchRejected([Ctrl EXCEPT !.searchCalls = RemoveAt(@, i)]))
  /\ last' = [op |-> "searchReject", query |-> searchCalls[i].query]
  /\ UNCHANGED <<activeWorkspaceId, store, effect, bridge, modelsCall>>

\* clearSearch()
ClearSearch ==
  /\ SetCtrl([Ctrl EXCEPT !.searchQuery = <<>>, !.searchResults = NoResults])
  /\ last' = [op |-> "clearSearch"]
  /\ UNCHANGED <<activeWorkspaceId, store, effect, bridge, modelsCall>>

\* ---------------------------------------------------------------- sendMessage

\* The guard without the check of isStreaming.
SendReturnsEarlyNoStreaming(st, text) ==
  Trim(text) = <<>> \/ st.selectedModel = ""

\* if (!trimmed || isStreaming || !selectedModel) return;
SendReturnsEarly(st, text) ==
  Trim(text) = <<>> \/ st.isStreaming \/ st.selectedModel = ""

\* The arguments with the text as typed.
SendArgsUntrimmed(st, text, wsId) ==
  [chatId |-> st.currentChatId, model |-> st.selectedModel, message |-> text,
   workspaceId |-> IF wsId = "" THEN NULL ELSE wsId]

\* The arguments of invoke("send_chat_message"), from the values the callback closed over.
SendArgs(st, text, wsId) ==
  [chatId |-> st.currentChatId, model |-> st.selectedModel, message |-> Trim(text),
   workspaceId |-> IF wsId = "" THEN NULL ELSE wsId]

\* The send that leaves the error slot as it finds it.
SendStartKeepsError(st, text, wsId) ==
  [st EXCEPT !.isStreaming = TRUE,
             !.streamingContentRef = <<>>,
             !.streamingContent = <<>>,
             !.messages = Append(@, [role |-> "user", content |-> Trim(text)]),
             !.inputValue = <<>>,
             !.sendCalls = Append(@, SendArgs(st, text, wsId)),
             !.streams = @ + 1]

\* sendMessage past its guard, up to the await of the backend call; the backend
\* starts the reply stream of the call.
SendStart(st, text, wsId) ==
  [st EXCEPT !.error = NULL,
             !.isStreaming = TRUE,
             !.streamingContentRef = <<>>,
             !.streamingContent = <<>>,
             !.messages = Append(@, [role |-> "user", content |-> Trim(text)]),
             !.inputValue = <<>>,
             !.sendCalls = Append(@, SendArgs(st, text, wsId)),
             !.streams = @ + 1]

\* sendMessage(text), up to its await (or its early return).
SendMessage(text) ==
  /\ ~SendReturnsEarly(Ctrl, text) =>
       Len(messages) < MaxMsgs /\ Len(sendCalls) < MaxPending /\ streams < MaxStreams
  /\ SetCtrl(IF SendReturnsEarly(Ctrl, text) THEN Ctrl
             ELSE SendStart(Ctrl, text, activeWorkspaceId))
  /\ last' = [op |-> "sendMessage", text |-> text, early |-> SendReturnsEarly(Ctrl, text)]
  /\ UNCHANGED <<activeWorkspaceId, store, effect, bridge, modelsCall>>

\* The continuation dropping the answer of a send the user has left.
SendResolvedIfStillStreaming(st, chatId) ==
  IF st.isStreaming THEN [st EXCEPT !.currentChatId = chatId] ELSE st

\* The continuation of sendMessage on success: setCurrentChatId(chatId)
SendResolved(st, chatId) == [st EXCEPT !.currentChatId = chatId]

\* The catch rolling the optimistic user message back.
SendRejectedRollsBack(st, e) ==
  [st EXCEPT !.error = e, !.isStreaming = FALSE,
             !.messages = IF @ = <<>> THEN @ ELSE SubSeq(@, 1, Len(@) - 1)]

\* The catch dropping the partial reply.
SendRejectedDropsPartial(st, e) ==
  [st EXCEPT !.error = e, !.isStreaming = FALSE,
             !.streamingContentRef = <<>>, !.streamingContent = <<>>]

\* The catch that records the failure and leaves the stream flag set.
SendRejectedKeepsStreaming(st, e) == [st EXCEPT !.error = e]

\* The catch of sendMessage: setError(String(err)); setIsStreaming(false)
SendRejected(st, e) == [st EXCEPT !.error = e, !.isStreaming = FALSE]

\* send_chat_message resolves with the chat id the backend answers.
SendResolve(i, chatId) ==
  /\ i \in DOMAIN sendCalls
  /\ SetCtrl(SendResolved([Ctrl EXCEPT !.sendCalls = RemoveAt(@, i)], chatId))
  /\ last' = [op |-> "sendResolve", chatId |-> chatId]
  /\ UNCHANGED <<activeWorkspaceId, store, effect, bridge, modelsCall>>

\* send_chat_message rejects.
SendReject(i, e) ==
  /\ i \in DOMAIN sendCalls
  /\ SetCtrl(SendRejected(StreamEnded([Ctrl EXCEPT !.sendCalls = RemoveAt(@, i)]), e))
  /\ last' = [op |-> "sendReject", error |-> e]
  /\ UNCHANGED <<activeWorkspaceId, store, effect, bridge, modelsCall>>

\* ---------------------------------------------------------------- startNewChat, loadChat

\* resetChatState()
ResetChatState(st) ==
  [st EXCEPT !.messages = <<>>,
             !.currentChatId = NULL,
             !.streamingContentRef = <<>>,
             !.streamingContent = <<>>,
             !.searchQuery = <<>>,
             !.searchResults = NoResults]

\* startNewChat leaving the error of the last chat on the screen.
NewChatKeepsError(st) == [ResetChatState(st) EXCEPT !.isStreaming = FALSE]

\* resetChatState(); setError(null); setIsStreaming(false)
NewChat(st) == [ResetChatState(st) EXCEPT !.error = NULL, !.isStreaming = FALSE]

\* resetChatState(), as the view calls it once a workspace was switched or created.
ResetChat ==
  /\ SetCtrl(ResetChatState(Ctrl))
  /\ last' = [op |-> "resetChatState"]
  /\ UNCHANGED <<activeWorkspaceId, store, effect, bridge, modelsCall>>

\* startNewChat()
StartNewChat ==
  /\ SetCtrl(NewChat(Ctrl))
  /\ last' = [op |-> "startNewChat"]
  /\ UNCHANGED <<activeWorkspaceId, store, effect, bridge, modelsCall>>

\* loadChat(chatId) up to its await: invoke("get_chat_messages"); the callback
\* closed over the chatHistory of its render.
LoadChat(chatId) ==
  /\ Len(loadCalls) < MaxPending
  /\ loadCalls' = Append(loadCalls, [chatId |-> chatId, chatHistory |-> chatHistory])
  /\ last' = [op |-> "loadChat", chatId |-> chatId]
  /\ UNCHANGED <<ctrl, activeWorkspaceId, store, effect, bridge, sendCalls, refreshCalls,
                 modelsCall,
                 searchCalls, historyCalls, streams>>

\* chatHistory.find((c) => c.id === chatId): <<the first match>>, or <<>> for undefined
RECURSIVE Find(_, _)
Find(history, chatId) ==
  IF history = <<>> THEN <<>>
  ELSE IF Head(history).id = chatId THEN <<Head(history)>>
  ELSE Find(Tail(history), chatId)

\* The continuation merging the fetched messages into the list.
LoadResolvedMerges(st, call, chatMessages) ==
  [st EXCEPT !.messages = @ \o chatMessages,
             !.currentChatId = call.chatId,
             !.streamingContentRef = <<>>,
             !.streamingContent = <<>>,
             !.error = NULL]

\* The continuation of loadChat on success.
LoadResolved(st, call, chatMessages) ==
  LET meta == Find(call.chatHistory, call.chatId)
  IN [st EXCEPT !.messages = chatMessages,
                !.currentChatId = call.chatId,
                !.streamingContentRef = <<>>,
                !.streamingContent = <<>>,
                !.error = NULL,
                !.selectedModel = IF meta # <<>> THEN meta[1].model_used ELSE @]

\* The catch closing the chat that failed to load.
LoadRejectedClosesChat(st, e) ==
  [st EXCEPT !.error = e, !.messages = <<>>, !.currentChatId = NULL,
             !.streamingContentRef = <<>>, !.streamingContent = <<>>]

\* The catch of loadChat: setError(String(err))
LoadRejected(st, e) == [st EXCEPT !.error = e]

\* get_chat_messages resolves with the messages of the chat.
LoadResolve(i, chatMessages) ==
  /\ i \in DOMAIN loadCalls
  /\ SetCtrl(LoadResolved([Ctrl EXCEPT !.loadCalls = RemoveAt(@, i)], loadCalls[i],
                          chatMessages))
  /\ last' = [op |-> "loadResolve", chatId |-> loadCalls[i].chatId,
              returned |-> chatMessages, cache |-> loadCalls[i].chatHistory]
  /\ UNCHANGED <<activeWorkspaceId, store, effect, bridge, modelsCall>>

\* get_chat_messages rejects.
LoadReject(i, e) ==
  /\ i \in DOMAIN loadCalls
  /\ SetCtrl(LoadRejected([Ctrl EXCEPT !.loadCalls = RemoveAt(@, i)], e))
  /\ last' = [op |-> "loadReject", chatId |-> loadCalls[i].chatId, error |-> e,
              thrown |-> FALSE]
  /\ UNCHANGED <<activeWorkspaceId, store, effect, bridge, modelsCall>>

\* ---------------------------------------------------------------- workspace handlers

\* The effect of useChat on a new active workspace id: refreshChatHistory() for it.
ActiveChanged(st, w) ==
  IF w # activeWorkspaceId THEN RefreshChatHistory(st, w) ELSE st

\* A handler of the view at an await: the workspace it is about, the call it
\* waits for, and whether that workspace was the active one when it started.
WsOp(kind, id, stage) ==
  [kind |-> kind, id |-> id, stage |-> stage,
   wasActive |-> id # "" /\ id = activeWorkspaceId]

\* The handler of a workspace action returned (ok) or threw (~ok).
WsDone(op, ok) ==
  [op |-> "workspaceDone", kind |-> op.kind, id |-> op.id,
   wasActive |-> op.wasActive, ok |-> ok]

\* handleSwitchWorkspace(w) up to the await of switchWorkspace:
\* invoke("set_active_workspace")
HandleSwitchWorkspace(w) ==
  /\ w \in workspaces
  /\ Len(wsOps) < MaxPending
  /\ wsOps' = Append(wsOps, WsOp("switch", w, "set_active"))
  /\ last' = [op |-> "handleSwitchWorkspace", id |-> w]
  /\ UNCHANGED <<organiser, ctrl, activeWorkspaceId, workspaces, backend, effect, bridge, calls>>

\* handleCreateNewWorkspace(name) up to the first await of createNewWorkspace:
\* invoke("create_workspace")
HandleCreateNewWorkspace ==
  /\ Len(wsOps) < MaxPending
  /\ wsOps' = Append(wsOps, WsOp("create", "", "create"))
  /\ last' = [op |-> "handleCreateNewWorkspace"]
  /\ UNCHANGED <<organiser, ctrl, activeWorkspaceId, workspaces, backend, effect, bridge, calls>>

\* handleDeleteWorkspace(w) up to the await of deleteWorkspaceAction:
\* invoke("delete_workspace")
HandleDeleteWorkspace(w) ==
  /\ w \in workspaces
  /\ Len(wsOps) < MaxPending
  /\ wsOps' = Append(wsOps, WsOp("delete", w, "delete"))
  /\ last' = [op |-> "handleDeleteWorkspace", id |-> w]
  /\ UNCHANGED <<organiser, ctrl, activeWorkspaceId, workspaces, backend, effect, bridge, calls>>

\* set_active_workspace resolves (the backend knows the workspace and makes it
\* the active one): setActiveWorkspaceId(w), then the handler goes on to
\* resetChatState(); the new active id runs the history effect.
SetActiveResolve(i) ==
  /\ i \in DOMAIN wsOps
  /\ wsOps[i].stage = "set_active"
  /\ wsOps[i].id \in backend.workspaces
  /\ wsOps[i].id # activeWorkspaceId => Len(historyCalls) < MaxPending
  /\ backend' = [backend EXCEPT !.active = wsOps[i].id]
  /\ activeWorkspaceId' = wsOps[i].id
  /\ SetCtrl(ActiveChanged(ResetChatState(Ctrl), wsOps[i].id))
  /\ wsOps' = RemoveAt(wsOps, i)
  /\ last' = WsDone(wsOps[i], TRUE)
  /\ UNCHANGED <<organiser, workspaces, effect, bridge, modelsCall>>

\* The call a handler waits for rejects: switchWorkspace, createNewWorkspace and
\* deleteWorkspaceAction have no catch and neither has the handler, which ends
\* there.
WsThrows(i, stage) ==
  /\ i \in DOMAIN wsOps
  /\ wsOps[i].stage = stage
  /\ wsOps' = RemoveAt(wsOps, i)
  /\ last' = WsDone(wsOps[i], FALSE)
  /\ UNCHANGED <<organiser, ctrl, activeWorkspaceId, workspaces, backend, effect, bridge, calls>>

\* set_active_workspace rejects.
SetActiveReject(i) == WsThrows(i, "set_active")

\* create_workspace resolves with the new workspace: refreshWorkspaces()
CreateResolve(i, w) ==
  /\ i \in DOMAIN wsOps
  /\ wsOps[i].stage = "create"
  /\ w \notin backend.workspaces
  /\ backend' = [backend EXCEPT !.workspaces = @ \cup {w}]
  /\ wsOps' = [wsOps EXCEPT ![i] = [@ EXCEPT !.id = w, !.stage = "refresh"]]
  /\ last' = [op |-> "createResolve", id |-> w]
  /\ UNCHANGED <<organiser, ctrl, activeWorkspaceId, workspaces, effect, bridge, calls>>

\* create_workspace rejects.
CreateReject(i) == WsThrows(i, "create")

\* The index after the backend deleted workspace w: w is gone and, when it was
\* the active one, another workspace is.
Deleted(index, w) ==
  LET rest == index.workspaces \ {w}
  IN [workspaces |-> rest,
      active |-> IF index.active = w THEN CHOOSE x \in rest : TRUE
                 ELSE index.active]

\* delete_workspace resolves (the backend had the workspace and keeps at least
\* one other): refreshWorkspaces()
DeleteResolve(i) ==
  /\ i \in DOMAIN wsOps
  /\ wsOps[i].stage = "delete"
  /\ wsOps[i].id \in backend.workspaces
  /\ backend.workspaces # {wsOps[i].id}
  /\ backend' = Deleted(backend, wsOps[i].id)
  /\ wsOps' = [wsOps EXCEPT ![i] = [@ EXCEPT !.stage = "refresh"]]
  /\ last' = [op |-> "deleteResolve", id |-> wsOps[i].id]
  /\ UNCHANGED <<organiser, ctrl, activeWorkspaceId, workspaces, effect, bridge, calls>>

\* delete_workspace rejects.
DeleteReject(i) == WsThrows(i, "delete")

\* renameWorkspaceAction(w, newName) up to its first await:
\* invoke("rename_workspace")
RenameWorkspace(w) ==
  /\ w \in workspaces
  /\ Len(wsOps) < MaxPending
  /\ wsOps' = Append(wsOps, WsOp("rename", w, "rename"))
  /\ last' = [op |-> "renameWorkspaceAction", id |-> w]
  /\ UNCHANGED <<organiser, ctrl, activeWorkspaceId, workspaces, backend, effect, bridge, calls>>

\* rename_workspace resolves (the backend has the workspace): refreshWorkspaces()
RenameResolve(i) ==
  /\ i \in DOMAIN wsOps
  /\ wsOps[i].stage = "rename"
  /\ wsOps[i].id \in backend.workspaces
  /\ wsOps' = [wsOps EXCEPT ![i] = [@ EXCEPT !.stage = "refreshed"]]
  /\ last' = [op |-> "renameResolve", id |-> wsOps[i].id]
  /\ UNCHANGED <<organiser, ctrl, activeWorkspaceId, workspaces, backend, effect, bridge, calls>>

\* rename_workspace rejects.
RenameReject(i) == WsThrows(i, "rename")

\* get_all_workspaces of the refreshWorkspaces() that ends renameWorkspaceAction
\* resolves: the list and the active id are stored, the action returns.
RenameRefreshResolve(i) ==
  /\ i \in DOMAIN wsOps
  /\ wsOps[i].stage = "refreshed"
  /\ backend.active # activeWorkspaceId => Len(historyCalls) < MaxPending
  /\ workspaces' = backend.workspaces
  /\ activeWorkspaceId' = backend.active
  /\ SetCtrl(ActiveChanged(Ctrl, backend.active))
  /\ wsOps' = RemoveAt(wsOps, i)
  /\ last' = WsDone(wsOps[i], TRUE)
  /\ UNCHANGED <<organiser, backend, effect, bridge, modelsCall>>

\* It rejects: console.error, renameWorkspaceAction returns.
RenameRefreshReject(i) ==
  /\ i \in DOMAIN wsOps
  /\ wsOps[i].stage = "refreshed"
  /\ wsOps' = RemoveAt(wsOps, i)
  /\ last' = WsDone(wsOps[i], TRUE)
  /\ UNCHANGED <<organiser, ctrl, activeWorkspaceId, workspaces, backend, effect, bridge, calls>>

\* get_all_workspaces of refreshWorkspaces resolves inside createNewWorkspace or
\* deleteWorkspaceAction: the list and the active id are stored (a new active id
\* runs the history effect). createNewWorkspace goes on to switchWorkspace(ws.id);
\* handleDeleteWorkspace goes on to refreshFolders(newWsId), which only touches
\* the folder store, and then to refreshChatHistory(newWsId).
WorkspacesResolve(i) ==
  /\ i \in DOMAIN wsOps
  /\ wsOps[i].stage = "refresh"
  /\ backend.active # activeWorkspaceId => Len(historyCalls) < MaxPending
  /\ workspaces' = backend.workspaces
  /\ activeWorkspaceId' = backend.active
  /\ SetCtrl(ActiveChanged(Ctrl, backend.active))
  /\ wsOps' = [wsOps EXCEPT ![i] = [@ EXCEPT !.stage =
                 IF wsOps[i].kind = "create" THEN "set_active" ELSE "history"]]
  /\ last' = [op |-> "workspacesResolve"]
  /\ UNCHANGED <<organiser, backend, effect, bridge, modelsCall>>

\* get_all_workspaces of refreshWorkspaces rejects: console.error, it returns "".
\* createNewWorkspace goes on to switchWorkspace(ws.id); handleDeleteWorkspace
\* skips the refreshes (newWsId is "") and calls resetChatState().
WorkspacesReject(i) ==
  /\ i \in DOMAIN wsOps
  /\ wsOps[i].stage = "refresh"
  /\ IF wsOps[i].kind = "create"
     THEN /\ wsOps' = [wsOps EXCEPT ![i] = [@ EXCEPT !.stage = "set_active"]]
          /\ last' = [op |-> "workspacesReject"]
          /\ UNCHANGED <<ctrl, calls>>
     ELSE /\ wsOps' = RemoveAt(wsOps, i)
          /\ SetCtrl(ResetChatState(Ctrl))
          /\ last' = WsDone(wsOps[i], TRUE)
          /\ UNCHANGED modelsCall
  /\ UNCHANGED <<organiser, activeWorkspaceId, workspaces, backend, effect, bridge>>

\* get_chats_for_workspace of the refreshChatHistory(newWsId) that
\* handleDeleteWorkspace awaits resolves: setChatHistory(chats), then
\* resetChatState().
DeleteHistoryResolve(i, chats) ==
  /\ i \in DOMAIN wsOps
  /\ wsOps[i].stage = "history"
  /\ SetCtrl(ResetChatState([Ctrl EXCEPT !.chatHistory = chats]))
  /\ wsOps' = RemoveAt(wsOps, i)
  /\ last' = WsDone(wsOps[i], TRUE)
  /\ UNCHANGED <<organiser, activeWorkspaceId, workspaces, backend, effect, bridge, modelsCall>>

\* It rejects: refreshChatHistory logs the failure, then resetChatState().
DeleteHistoryReject(i) ==
  /\ i \in DOMAIN wsOps
  /\ wsOps[i].stage = "history"
  /\ SetCtrl(ResetChatState(Ctrl))
  /\ wsOps' = RemoveAt(wsOps, i)
  /\ last' = WsDone(wsOps[i], TRUE)
  /\ UNCHANGED <<organiser, activeWorkspaceId, workspaces, backend, effect, bridge, modelsCall>>

\* ---------------------------------------------------------------- derived views

\* !v of a folder_id: null and the empty string are falsy
Falsy(v) == v = NULL \/ v = ""

\* chats.filter((c) => !c.folder_id)
Loose(chats) == SelectSeq(chats, LAMBDA c : Falsy(c.folder_id))

\* The filter that takes every chat that is in some folder.
InFolderAny(chats, folderId) == SelectSeq(chats, LAMBDA c : ~Falsy(c.folder_id))

\* chats.filter((c) => c.folder_id === folderId)
InFolder(chats, folderId) == SelectSeq(chats, LAMBDA c : c.folder_id = folderId)

looseChats == Loose(chatHistory)
chatsByFolder(folderId) == InFolder(chatHistory, folderId)

\* ---------------------------------------------------------------- backend: chats and folders

Ids(list) == {list[k].id : k \in DOMAIN list}

\* get_chats_for_workspace and get_folders_for_workspace: the chats and folders
\* of the slices are those of workspace w1; a workspace created later is empty.
ChatsOf(w) == IF w = "w1" THEN backendChats ELSE <<>>
FoldersOf(w) == IF w = "w1" THEN backendFolders ELSE <<>>

\* remove_chat_from_folder_cmd and add_chat_to_folder: the chat's folder_id is the
\* single reference to its folder.
SetFolder(chats, chatId, folderId) ==
  [k \in DOMAIN chats |->
     IF chats[k].id = chatId THEN [chats[k] EXCEPT !.folder_id = folderId]
     ELSE chats[k]]

\* delete_chat
WithoutChat(chats, chatId) == SelectSeq(chats, LAMBDA c : c.id # chatId)

\* delete_folder: the folder goes, its chats become loose.
WithoutFolder(list, folderId) == SelectSeq(list, LAMBDA f : f.id # folderId)
Loosened(chats, folderId) ==
  [k \in DOMAIN chats |->
     IF chats[k].folder_id = folderId THEN [chats[k] EXCEPT !.folder_id = NULL]
     ELSE chats[k]]

\* rename_folder
Renamed(list, folderId, name) ==
  [k \in DOMAIN list |->
     IF list[k].id = folderId THEN [list[k] EXCEPT !.name = name] ELSE list[k]]

\* ---------------------------------------------------------------- folder store

\* refreshFolders(wsId) up to its await: nothing without an id, else
\* invoke("get_folders_for_workspace"), here not awaited by its caller.
RefreshFolders(calls_, id) ==
  IF id = "" THEN calls_ ELSE Append(calls_, [workspaceId |-> id])

\* The effect of useFolder on a new active workspace id:
\* if (activeWorkspaceId) refreshFolders(activeWorkspaceId)
FoldersEffect ==
  /\ folderWs # activeWorkspaceId
  /\ Len(folderCalls) < MaxPending
  /\ folderWs' = activeWorkspaceId
  /\ folderCalls' = RefreshFolders(folderCalls, activeWorkspaceId)
  /\ last' = [op |-> "foldersEffect"]
  /\ UNCHANGED <<ctrl, activeWorkspaceId, workspaces, wsOps, backend, folders, folderOps,
                 chatOps, backendChats, backendFolders, effect, bridge, calls>>

\* get_folders_for_workspace of a refreshFolders nobody awaits resolves:
\* setFolders(result)
FoldersResolve(i) ==
  /\ i \in DOMAIN folderCalls
  /\ folders' = FoldersOf(folderCalls[i].workspaceId)
  /\ folderCalls' = RemoveAt(folderCalls, i)
  /\ last' = [op |-> "folders"]
  /\ UNCHANGED <<ctrl, activeWorkspaceId, workspaces, wsOps, backend, folderWs, folderOps,
                 chatOps, backendChats, backendFolders, effect, bridge, calls>>

\* It rejects: console.error
FoldersReject(i) ==
  /\ i \in DOMAIN folderCalls
  /\ folderCalls' = RemoveAt(folderCalls, i)
  /\ last' = [op |-> "foldersFailed"]
  /\ UNCHANGED <<ctrl, activeWorkspaceId, workspaces, wsOps, backend, folders, folderWs,
                 folderOps, chatOps, backendChats, backendFolders, effect, bridge, calls>>

\* A mutation of the folder store at an await.
FolderOp(kind, id, name) ==
  [kind |-> kind, id |-> id, name |-> name, stage |-> "call"]

\* The mutation returned, or threw what its backend call threw: whether that
\* call failed, whether the failure reached the caller, and whether the refresh
\* that follows a success stored the backend's list.
FolderDone(op, failed, thrown, refreshed) ==
  [op |-> "folderActionDone", kind |-> op.kind, id |-> op.id, failed |-> failed,
   thrown |-> thrown, refreshed |-> refreshed]

FolderStarts(op) ==
  /\ Len(folderOps) < MaxPending
  /\ folderOps' = Append(folderOps, op)
  /\ last' = [op |-> "folderAction", kind |-> op.kind]
  /\ UNCHANGED <<ctrl, activeWorkspaceId, workspaces, wsOps, backend, folders, folderWs,
                 folderCalls, chatOps, backendChats, backendFolders, effect, bridge,
                 calls>>

\* createNewFolder(name) up to its first await: nothing without an active
\* workspace, else invoke("create_folder")
CreateNewFolder(name) ==
  IF activeWorkspaceId = ""
  THEN /\ last' = [op |-> "folderAction", kind |-> "create", early |-> TRUE]
       /\ UNCHANGED <<ctrl, activeWorkspaceId, store, effect, bridge, calls>>
  ELSE FolderStarts(FolderOp("create", "", name))

\* renameFolderAction(folderId, newName) up to its first await:
\* invoke("rename_folder")
RenameFolderAction(folderId, newName) ==
  /\ folderId \in Ids(folders)
  /\ FolderStarts(FolderOp("rename", folderId, newName))

\* handleDeleteFolder(folderId) up to the first await of deleteFolderAction:
\* invoke("delete_folder")
HandleDeleteFolder(folderId) ==
  /\ folderId \in Ids(folders)
  /\ FolderStarts(FolderOp("delete", folderId, ""))

\* What the backend call of a folder mutation does to the backend's folders.
FoldersAfter(op) ==
  IF op.kind = "create"
  THEN Append(backendFolders,
              FolderMeta(CHOOSE f \in FolderIds : f \notin Ids(backendFolders), op.name))
  ELSE IF op.kind = "rename" THEN Renamed(backendFolders, op.id, op.name)
  ELSE WithoutFolder(backendFolders, op.id)

\* The backend call of a folder mutation resolves: await refreshFolders()
FolderCallResolve(i) ==
  /\ i \in DOMAIN folderOps
  /\ folderOps[i].stage = "call"
  /\ IF folderOps[i].kind = "create" THEN Ids(backendFolders) # FolderIds
     ELSE folderOps[i].id \in Ids(backendFolders)
  /\ backendFolders' = FoldersAfter(folderOps[i])
  /\ backendChats' = IF folderOps[i].kind = "delete"
                     THEN Loosened(backendChats, folderOps[i].id) ELSE backendChats
  /\ folderOps' = [folderOps EXCEPT ![i] = [@ EXCEPT !.stage = "refresh"]]
  /\ last' = [op |-> "folderCallResolve", kind |-> folderOps[i].kind]
  /\ UNCHANGED <<ctrl, activeWorkspaceId, workspaces, wsOps, backend, folders, folderWs,
                 folderCalls, chatOps, effect, bridge, calls>>

\* The catch of a folder mutation logging the failure and returning.
FolderCallRejectSwallows(i) ==
  /\ i \in DOMAIN folderOps
  /\ folderOps[i].stage = "call"
  /\ folderOps' = RemoveAt(folderOps, i)
  /\ last' = FolderDone(folderOps[i], TRUE, FALSE, FALSE)
  /\ UNCHANGED <<ctrl, activeWorkspaceId, workspaces, wsOps, backend, folders, folderWs,
                 folderCalls, chatOps, backendChats, backendFolders, effect, bridge,
                 calls>>

\* The backend call of a folder mutation rejects: console.error, throw err (out of
\* handleDeleteFolder too).
FolderCallReject(i) ==
  /\ i \in DOMAIN folderOps
  /\ folderOps[i].stage = "call"
  /\ folderOps' = RemoveAt(folderOps, i)
  /\ last' = FolderDone(folderOps[i], TRUE, TRUE, FALSE)
  /\ UNCHANGED <<ctrl, activeWorkspaceId, workspaces, wsOps, backend, folders, folderWs,
                 folderCalls, chatOps, backendChats, backendFolders, effect, bridge,
                 calls>>

\* After deleteFolderAction, handleDeleteFolder goes on to refreshChatHistory().
AfterFolderAction(st, op) ==
  IF op.kind = "delete" THEN RefreshChatHistory(st, activeWorkspaceId) ELSE st

\* The refresh is answered and the folder cache keeps its list.
FolderRefreshResolveKeepsCache(i) ==
  /\ i \in DOMAIN folderOps
  /\ folderOps[i].stage = "refresh"
  /\ folderOps[i].kind = "delete" => Len(historyCalls) < MaxPending
  /\ folderOps' = RemoveAt(folderOps, i)
  /\ SetCtrl(AfterFolderAction(Ctrl, folderOps[i]))
  /\ last' = FolderDone(folderOps[i], FALSE, FALSE, TRUE)
  /\ UNCHANGED <<activeWorkspaceId, workspaces, wsOps, backend, folders, folderWs,
                 folderCalls, chatOps, backendChats, backendFolders, effect, bridge,
                 modelsCall>>

\* get_folders_for_workspace of the awaited refreshFolders() resolves:
\* setFolders(result), the mutation returns.
FolderRefreshResolve(i) ==
  /\ i \in DOMAIN folderOps
  /\ folderOps[i].stage = "refresh"
  /\ folderOps[i].kind = "delete" => Len(historyCalls) < MaxPending
  /\ folders' = backendFolders
  /\ folderOps' = RemoveAt(folderOps, i)
  /\ SetCtrl(AfterFolderAction(Ctrl, folderOps[i]))
  /\ last' = FolderDone(folderOps[i], FALSE, FALSE, TRUE)
  /\ UNCHANGED <<activeWorkspaceId, workspaces, wsOps, backend, folderWs, folderCalls,
                 chatOps, backendChats, backendFolders, effect, bridge, modelsCall>>

\* It rejects: console.error inside refreshFolders, the mutation returns.
FolderRefreshReject(i) ==
  /\ i \in DOMAIN folderOps
  /\ folderOps[i].stage = "refresh"
  /\ folderOps[i].kind = "delete" => Len(historyCalls) < MaxPending
  /\ folderOps' = RemoveAt(folderOps, i)
  /\ SetCtrl(AfterFolderAction(Ctrl, folderOps[i]))
  /\ last' = FolderDone(folderOps[i], FALSE, FALSE, FALSE)
  /\ UNCHANGED <<activeWorkspaceId, workspaces, wsOps, backend, folders, folderWs,
                 folderCalls, chatOps, backendChats, backendFolders, effect, bridge,
                 modelsCall>>

\* ---------------------------------------------------------------- chat actions

\* renameChatAction, deleteChatAction, moveChatToFolderAction or
\* removeChatFromFolderAction at an await: the chat, the folder the cache showed
\* it in and the target folder, the call awaited, the calls issued so far, and
\* what the callback closed over (the active workspace, whether the chat was the
\* current one).
ChatOp(kind, chatId, from, to, stage) ==
  [kind |-> kind, chatId |-> chatId, from |-> from, to |-> to, stage |-> stage,
   issued |-> <<stage>>, ws |-> activeWorkspaceId,
   wasCurrent |-> currentChatId = chatId]

\* The chat action returned: the calls it issued, the one that failed (if any)
\* and with what, whether its chat-history refresh stored the backend's list, and
\* that nothing is thrown.
ChatDone(op, failed, e, refreshed) ==
  [op |-> "chatActionDone", kind |-> op.kind, chatId |-> op.chatId,
   from |-> op.from, to |-> op.to, issued |-> op.issued, failed |-> failed,
   error |-> e, refreshed |-> refreshed, thrown |-> FALSE]

ChatActionStarts(op) ==
  /\ Len(chatOps) < MaxChatOps
  /\ chatOps' = Append(chatOps, op)
  /\ last' = [op |-> "chatAction", kind |-> op.kind, early |-> FALSE]
  /\ UNCHANGED <<ctrl, activeWorkspaceId, workspaces, wsOps, backend, folders, folderWs,
                 folderCalls, folderOps, backendChats, backendFolders, effect, bridge,
                 calls>>

\* The action returns before any call (chat not in the cache, or in no folder).
ChatActionReturnsEarly(kind) ==
  /\ last' = [op |-> "chatAction", kind |-> kind, early |-> TRUE]
  /\ UNCHANGED <<ctrl, activeWorkspaceId, store, effect, bridge, calls>>

\* renameChatAction(chatId, newTitle) up to its first await: invoke("rename_chat")
RenameChatAction(chatId) ==
  /\ chatId \in Ids(chatHistory)
  /\ ChatActionStarts(ChatOp("rename", chatId, NULL, NULL, "rename_chat"))

\* deleteChatAction(chatId) up to its first await: invoke("delete_chat")
DeleteChatAction(chatId) ==
  /\ chatId \in Ids(chatHistory)
  /\ ChatActionStarts(ChatOp("delete", chatId, NULL, NULL, "delete_chat"))

\* The move that starts with the add call, whatever folder the chat is in.
MoveChatToFolderActionAddsFirst(chatId, newFolderId) ==
  LET chat == Find(chatHistory, chatId)
  IN IF chat = <<>> THEN ChatActionReturnsEarly("move")
     ELSE ChatActionStarts(
            ChatOp("move", chatId, chat[1].folder_id, newFolderId,
                   "add_chat_to_folder"))

\* moveChatToFolderAction(chatId, newFolderId) up to its first await: the chat is
\* looked up in the cache; in a folder, invoke("remove_chat_from_folder_cmd")
\* first, else invoke("add_chat_to_folder").
MoveChatToFolderAction(chatId, newFolderId) ==
  LET chat == Find(chatHistory, chatId)
  IN IF chat = <<>> THEN ChatActionReturnsEarly("move")
     ELSE ChatActionStarts(
            ChatOp("move", chatId, chat[1].folder_id, newFolderId,
                   IF Falsy(chat[1].folder_id) THEN "add_chat_to_folder"
                   ELSE "remove_chat_from_folder_cmd"))

\* removeChatFromFolderAction(chatId) up to its first await: the chat is looked
\* up in the cache; in a folder, invoke("remove_chat_from_folder_cmd").
RemoveChatFromFolderAction(chatId) ==
  LET chat == Find(chatHistory, chatId)
  IN IF chat = <<>> \/ Falsy(chat[1].folder_id) THEN ChatActionReturnsEarly("remove")
     ELSE ChatActionStarts(
            ChatOp("remove", chatId, chat[1].folder_id, NULL,
                   "remove_chat_from_folder_cmd"))

\* The call that follows the one that resolved.
NextCall(op) ==
  IF op.kind = "move" /\ op.stage = "remove_chat_from_folder_cmd"
  THEN "add_chat_to_folder" ELSE "get_chats_for_workspace"

\* The backend can serve the call: it has the chat (in the folder named, for a
\* removal) and the target folder.
CanServe(op) ==
  /\ op.chatId \in Ids(backendChats)
  /\ op.stage = "remove_chat_from_folder_cmd"
       => Find(backendChats, op.chatId)[1].folder_id = op.from
  /\ op.stage = "add_chat_to_folder" => op.to \in Ids(backendFolders)

\* What the call does to the backend's chats (a title is not part of the model).
ChatsAfter(op) ==
  IF op.stage = "delete_chat" THEN WithoutChat(backendChats, op.chatId)
  ELSE IF op.stage = "remove_chat_from_folder_cmd"
       THEN SetFolder(backendChats, op.chatId, NULL)
  ELSE IF op.stage = "add_chat_to_folder"
       THEN SetFolder(backendChats, op.chatId, op.to)
  ELSE backendChats

MutatingCalls ==
  {"rename_chat", "delete_chat", "remove_chat_from_folder_cmd", "add_chat_to_folder"}

\* rename_chat, delete_chat, remove_chat_from_folder_cmd or add_chat_to_folder
\* resolves: the action issues its next call (moveChatToFolderAction its add, the
\* others and the add the get_chats_for_workspace of refreshChatHistory()).
ChatCallResolve(i) ==
  /\ i \in DOMAIN chatOps
  /\ chatOps[i].stage \in MutatingCalls
  /\ CanServe(chatOps[i])
  /\ backendChats' = ChatsAfter(chatOps[i])
  /\ chatOps' = [chatOps EXCEPT ![i] =
                   [@ EXCEPT !.stage = NextCall(chatOps[i]),
                             !.issued = Append(@, NextCall(chatOps[i]))]]
  /\ last' = [op |-> "chatCallResolve", call |-> chatOps[i].stage]
  /\ UNCHANGED <<ctrl, activeWorkspaceId, workspaces, wsOps, backend, folders, folderWs,
                 folderCalls, folderOps, backendFolders, effect, bridge, calls>>

\* It rejects: the catch of the action, setError(String(err)).
ChatCallReject(i, e) ==
  /\ i \in DOMAIN chatOps
  /\ chatOps[i].stage \in MutatingCalls
  /\ error' = e
  /\ chatOps' = RemoveAt(chatOps, i)
  /\ last' = ChatDone(chatOps[i], chatOps[i].stage, e, FALSE)
  /\ UNCHANGED <<messages, inputValue, models, selectedModel, isStreaming, currentChatId,
                 streamingContent, streamingContentRef, chatHistory, searchQuery,
                 searchResults, activeWorkspaceId, workspaces, wsOps, backend, folders,
                 folderWs, folderCalls, folderOps, backendChats, backendFolders, effect,
                 bridge, calls>>

\* What follows the await of refreshChatHistory(): options.onChatListChange(),
\* which is refreshFolders() of the render the action was called in and is not
\* awaited; deleteChatAction then closes the chat if it was the current one.
AfterChatRefresh(st, op) ==
  IF op.kind = "delete" /\ op.wasCurrent
  THEN [st EXCEPT !.messages = <<>>, !.currentChatId = NULL]
  ELSE st

\* The refresh is answered and the answer is dropped: the cache keeps its list.
ChatRefreshResolveKeepsCache(i) ==
  /\ i \in DOMAIN chatOps
  /\ chatOps[i].stage = "get_chats_for_workspace"
  /\ Len(folderCalls) < MaxPending
  /\ SetCtrl(AfterChatRefresh(Ctrl, chatOps[i]))
  /\ folderCalls' = RefreshFolders(folderCalls, chatOps[i].ws)
  /\ chatOps' = RemoveAt(chatOps, i)
  /\ last' = ChatDone(chatOps[i], "", NULL, TRUE)
  /\ UNCHANGED <<activeWorkspaceId, workspaces, wsOps, backend, folders, folderWs,
                 folderOps, backendChats, backendFolders, effect, bridge, modelsCall>>

\* get_chats_for_workspace of the awaited refreshChatHistory() resolves:
\* setChatHistory(chats), then the rest of the action.
ChatRefreshResolve(i) ==
  /\ i \in DOMAIN chatOps
  /\ chatOps[i].stage = "get_chats_for_workspace"
  /\ Len(folderCalls) < MaxPending
  /\ SetCtrl(AfterChatRefresh([Ctrl EXCEPT !.chatHistory = backendChats], chatOps[i]))
  /\ folderCalls' = RefreshFolders(folderCalls, chatOps[i].ws)
  /\ chatOps' = RemoveAt(chatOps, i)
  /\ last' = ChatDone(chatOps[i], "", NULL, TRUE)
  /\ UNCHANGED <<activeWorkspaceId, workspaces, wsOps, backend, folders, folderWs,
                 folderOps, backendChats, backendFolders, effect, bridge, modelsCall>>

\* It rejects: console.error inside refreshChatHistory, then the rest of the
\* action.
ChatRefreshReject(i) ==
  /\ i \in DOMAIN chatOps
  /\ chatOps[i].stage = "get_chats_for_workspace"
  /\ Len(folderCalls) < MaxPending
  /\ SetCtrl(AfterChatRefresh(Ctrl, chatOps[i]))
  /\ folderCalls' = RefreshFolders(folderCalls, chatOps[i].ws)
  /\ chatOps' = RemoveAt(chatOps, i)
  /\ last' = ChatDone(chatOps[i], "get_chats_for_workspace", NULL, FALSE)
  /\ UNCHANGED <<activeWorkspaceId, workspaces, wsOps, backend, folders, folderWs,
                 folderOps, backendChats, backendFolders, effect, bridge, modelsCall>>

\* ---------------------------------------------------------------- specification
Pending == 1..MaxPending
ModelLists == {<<>>, <<"m1", "m2">>}

\* The subscription lifecycle: the effect mounted, cleaned up and run again, with
\* events arriving at every point of it.
NextSub ==
  \/ \E s \in Setups : Setup(s)
  \/ \E s \in Setups : Cleanup(s)
  \/ \E s \in Setups : ResolveChunk(s)
  \/ \E s \in Setups : ResolveError(s)
  \/ DeliverChunk(<<"a">>, FALSE)
  \/ Len(messages) < MaxSubMsgs /\ DeliverChunk(<<"a">>, TRUE)
  \/ DeliverError("e1")
  \/ \E i \in Pending : RefreshWorkspacesResolve(i, "w1")
  \/ \E i \in Pending : RefreshChatsResolve(i, <<ChatMeta("c1", "m1")>>)
  \/ \E i \in Pending : RefreshReject(i)

SpecSub == Init /\ [][NextSub]_vars

\* Streaming with the listeners of one run of the effect: a message is sent and
\* the backend answers with chunk events, a done event or an error event.
NextStream ==
  \/ Setup(1)
  \/ ResolveChunk(1)
  \/ ResolveError(1)
  \/ ModelsResolve(<<"m1", "m2">>)
  \/ SendMessage(<<"h">>)
  \/ \E ev \in ChunkEvents : DeliverChunk(ev.content, ev.done)
  \/ DeliverError("e1")
  \/ \E i \in Pending : RefreshWorkspacesResolve(i, "w1")
  \/ \E i \in Pending : RefreshChatsResolve(i, <<ChatMeta("c1", "m1")>>)
  \/ \E i \in Pending : RefreshReject(i)

SpecStream == Init /\ [][NextStream]_vars

\* Opening a chat: chats are loaded while a reply is streaming, a search is shown
\* and the chat history is fetched.
NextLoad ==
  \/ Setup(1)
  \/ ModelsResolve(<<"m1", "m2">>)
  \/ WorkspaceRefreshed({"w1"}, "w1")
  \/ \E i \in Pending : HistoryResolve(i, <<ChatMeta("c1", "m2")>>)
  \/ SendMessage(<<"h">>)
  \/ DeliverChunk(<<"a">>, FALSE)
  \/ SearchChats(<<"x">>)
  \/ \E i \in Pending : SearchResolve(i, <<ChatMeta("c1", "m2")>>)
  \/ \E c \in ChatIds : LoadChat(c)
  \/ \E i \in Pending : LoadResolve(i, <<[role |-> "user", content |-> <<"h">>]>>)
  \/ \E i \in Pending : LoadReject(i, "e1")

SpecLoad == Init /\ [][NextLoad]_vars

\* A reply streaming while the user goes on: the chunks of a stream arrive while
\* chats are started, loaded and reset and messages are sent.
NextAcc ==
  \/ Setup(1)
  \/ ModelsResolve(<<"m1", "m2">>)
  \/ SendMessage(<<"h">>)
  \/ \E i \in Pending : SendResolve(i, "c1")
  \/ \E i \in Pending : SendReject(i, "e2")
  \/ DeliverChunk(<<"a">>, FALSE)
  \/ DeliverChunk(<<"b">>, TRUE)
  \/ DeliverError("e1")
  \/ \E i \in Pending : RefreshReject(i)
  \/ StartNewChat
  \/ ResetChat
  \/ LoadChat("c2")
  \/ \E i \in Pending : LoadResolve(i, <<>>)

SpecAcc == Init /\ [][NextAcc]_vars

\* A new chat and a message in it: the backend rejects the call, or accepts it
\* and ends the reply with a done event or an error event.
NextLive ==
  \/ Setup(1)
  \/ ResolveChunk(1)
  \/ ResolveError(1)
  \/ ModelsResolve(<<"m1", "m2">>)
  \/ StartNewChat
  \/ SendMessage(<<"h", "i">>)
  \/ \E i \in Pending : SendResolve(i, "c1")
  \/ \E i \in Pending : SendReject(i, "e2")
  \/ DeliverChunk(<<"b">>, TRUE)
  \/ DeliverError("e1")
  \/ \E i \in Pending : RefreshReject(i)

\* What the backend owes a send: the rejection of the call, an error event or a
\* done event.
BackendEnds ==
  \/ \E i \in Pending : SendReject(i, "e2")
  \/ DeliverError("e1")
  \/ DeliverChunk(<<"b">>, TRUE)

SpecLive == Init /\ [][NextLive]_vars /\ WF_vars(BackendEnds)

\* Switching workspaces around a done event: a second workspace is created and
\* switched to while the refresh chain of a finished reply and the refreshes of
\* the two effects are in flight; every call resolves.
NextSwitch ==
  \/ WorkspaceRefreshed(backend.workspaces, backend.active)
  \/ \E i \in Pending : HistoryResolve(i, ChatsOf(historyCalls[i].workspaceId))
  \/ FoldersEffect
  \/ \E i \in Pending : FoldersResolve(i)
  \/ HandleCreateNewWorkspace
  \/ \E i \in Pending : CreateResolve(i, "w2")
  \/ \E i \in Pending : WorkspacesResolve(i)
  \/ \E w \in WorkspaceIds : HandleSwitchWorkspace(w)
  \/ \E i \in Pending : SetActiveResolve(i)
  \/ Setup(1)
  \/ ResolveChunk(1)
  \/ Cleanup(1)
  \/ DeliverChunk(<<"b">>, TRUE)
  \/ \E i \in Pending : RefreshWorkspacesResolve(i, backend.active)
  \/ \E i \in Pending : RefreshChatsResolve(i, ChatsOf(refreshCalls[i].workspaceId))

SpecSwitch == Init /\ [][NextSwitch]_vars

\* Deleting folders: a folder with a chat in it and an empty one are deleted, and
\* the chat list is fetched again after each deletion.
NextUnfile ==
  \/ WorkspaceRefreshed({"w1"}, "w1")
  \/ \E i \in Pending : HistoryResolve(i, backendChats)
  \/ \E i \in Pending : HistoryReject(i)
  \/ FoldersEffect
  \/ \E i \in Pending : FoldersResolve(i)
  \/ \E f \in {"fA", "fB"} : HandleDeleteFolder(f)
  \/ \E i \in Pending : FolderCallResolve(i)
  \/ \E i \in Pending : FolderCallReject(i)
  \/ \E i \in Pending : FolderRefreshResolve(i)
  \/ \E i \in Pending : FolderRefreshReject(i)

SpecUnfile == Init /\ [][NextUnfile]_vars

\* Deleting a chat while chats are opened: either chat is opened before, during
\* or after the deletion of chat c2, and every call resolves.
NextDiscard ==
  \/ WorkspaceRefreshed({"w1"}, "w1")
  \/ \E i \in Pending : HistoryResolve(i, backendChats)
  \/ \E i \in Pending : FoldersResolve(i)
  \/ \E c \in ChatIds : LoadChat(c)
  \/ \E i \in Pending : LoadResolve(i, <<[role |-> "user", content |-> <<"h">>]>>)
  \/ DeleteChatAction("c2")
  \/ \E i \in 1..MaxChatOps : ChatCallResolve(i)
  \/ \E i \in 1..MaxChatOps : ChatRefreshResolve(i)

SpecDiscard == Init /\ [][NextDiscard]_vars

\* Searching: queries are typed with and without an active workspace and the
\* backend answers each search in its own time.
Queries == {<<>>, <<WS>>, <<"x">>, <<"x", "y">>}
Matches == {<<>>, <<ChatMeta("c1", "m1")>>}

NextSearch ==
  \/ WorkspaceRefreshed({"w1"}, "w1")
  \/ \E i \in Pending : HistoryResolve(i, <<ChatMeta("c1", "m1")>>)
  \/ \E i \in Pending : HistoryReject(i)
  \/ \E q \in Queries : SearchChats(q)
  \/ \E i \in Pending, r \in Matches : SearchResolve(i, r)
  \/ \E i \in Pending : SearchReject(i)

SpecSearch == Init /\ [][NextSearch]_vars

\* Workspaces: the handlers of the view switch to, create and delete workspaces
\* over an open chat with a reply streaming, and the backend answers or fails
\* each call.
NextWorkspace ==
  \/ ModelsResolve(<<"m1", "m2">>)
  \/ WorkspaceRefreshed(backend.workspaces, backend.active)
  \/ \E i \in Pending : HistoryResolve(i, <<ChatMeta("c1", "m1")>>)
  \/ SendMessage(<<"h">>)
  \/ \E i \in Pending : SendResolve(i, "c1")
  \/ SearchChats(<<"x">>)
  \/ \E w \in WorkspaceIds : HandleSwitchWorkspace(w)
  \/ HandleCreateNewWorkspace
  \/ \E w \in WorkspaceIds : HandleDeleteWorkspace(w)
  \/ \E i \in Pending : SetActiveResolve(i)
  \/ \E i \in Pending : SetActiveReject(i)
  \/ \E i \in Pending, w \in WorkspaceIds : CreateResolve(i, w)
  \/ \E i \in Pending : CreateReject(i)
  \/ \E i \in Pending : DeleteResolve(i)
  \/ \E i \in Pending : DeleteReject(i)
  \/ \E i \in Pending : WorkspacesResolve(i)
  \/ \E i \in Pending : WorkspacesReject(i)
  \/ \E i \in Pending : DeleteHistoryResolve(i, <<>>)
  \/ \E i \in Pending : DeleteHistoryReject(i)

SpecWorkspace == Init /\ [][NextWorkspace]_vars

\* The workspace store alone: its four mutations, each of their calls answered or
\* failed by the backend.
NextActive ==
  \/ WorkspaceRefreshed(backend.workspaces, backend.active)
  \/ \E i \in Pending : HistoryResolve(i, <<>>)
  \/ \E w \in WorkspaceIds : HandleSwitchWorkspace(w)
  \/ HandleCreateNewWorkspace
  \/ \E w \in WorkspaceIds : HandleDeleteWorkspace(w)
  \/ \E w \in WorkspaceIds : RenameWorkspace(w)
  \/ \E i \in Pending : SetActiveResolve(i)
  \/ \E i \in Pending : SetActiveReject(i)
  \/ \E i \in Pending, w \in WorkspaceIds : CreateResolve(i, w)
  \/ \E i \in Pending : CreateReject(i)
  \/ \E i \in Pending : DeleteResolve(i)
  \/ \E i \in Pending : DeleteReject(i)
  \/ \E i \in Pending : RenameResolve(i)
  \/ \E i \in Pending : RenameReject(i)
  \/ \E i \in Pending : WorkspacesResolve(i)
  \/ \E i \in Pending : WorkspacesReject(i)
  \/ \E i \in Pending : RenameRefreshResolve(i)
  \/ \E i \in Pending : RenameRefreshReject(i)
  \/ \E i \in Pending : DeleteHistoryResolve(i, <<>>)
  \/ \E i \in Pending : DeleteHistoryReject(i)

SpecActive == Init /\ [][NextActive]_vars

\* The folder store: folders are created, renamed and deleted in the active
\* workspace and the backend answers or fails each call.
NextFolders ==
  \/ WorkspaceRefreshed({"w1"}, "w1")
  \/ \E i \in Pending : HistoryResolve(i, backendChats)
  \/ FoldersEffect
  \/ \E i \in Pending : FoldersResolve(i)
  \/ \E i \in Pending : FoldersReject(i)
  \/ CreateNewFolder("n2")
  \/ RenameFolderAction("fA", "n2")
  \/ \E f \in {"fB", "fC"} : HandleDeleteFolder(f)
  \/ \E i \in Pending : FolderCallResolve(i)
  \/ \E i \in Pending : FolderCallReject(i)
  \/ \E i \in Pending : FolderRefreshResolve(i)
  \/ \E i \in Pending : FolderRefreshReject(i)

SpecFolders == Init /\ [][NextFolders]_vars

\* Organising chats: chats of the active workspace are renamed, deleted, moved
\* between folders and taken out of them, and the backend answers or fails each
\* call.
NextOrganise ==
  \/ WorkspaceRefreshed({"w1"}, "w1")
  \/ \E i \in Pending : HistoryResolve(i, backendChats)
  \/ \E i \in Pending : FoldersResolve(i)
  \/ RenameChatAction("c2")
  \/ DeleteChatAction("c2")
  \/ MoveChatToFolderAction("c1", "fB")
  \/ RemoveChatFromFolderAction("c1")
  \/ \E i \in 1..MaxChatOps : ChatCallResolve(i)
  \/ \E i \in 1..MaxChatOps : ChatCallReject(i, "e1")
  \/ \E i \in 1..MaxChatOps : ChatRefreshResolve(i)
  \/ \E i \in 1..MaxChatOps : ChatRefreshReject(i)

SpecOrganise == Init /\ [][NextOrganise]_vars

\* Moving one chat between two folders, also while an earlier move of it is
\* still in flight.
NextMove ==
  \/ WorkspaceRefreshed({"w1"}, "w1")
  \/ \E i \in Pending : HistoryResolve(i, backendChats)
  \/ \E i \in Pending : FoldersResolve(i)
  \/ \E f \in {"fA", "fB"} : MoveChatToFolderAction("c1", f)
  \/ \E i \in 1..MaxChatOps : ChatCallResolve(i)
  \/ \E i \in 1..MaxChatOps : ChatCallReject(i, "e1")
  \/ \E i \in 1..MaxChatOps : ChatRefreshResolve(i)
  \/ \E i \in 1..MaxChatOps : ChatRefreshReject(i)

SpecMove == Init /\ [][NextMove]_vars

\* Leaving a chat: a new chat is started, or a load fails, over an open chat with
\* a reply streaming and a search typed.
NextLeave ==
  \/ Setup(1)
  \/ ModelsResolve(<<"m1", "m2">>)
  \/ ModelsReject("e1")
  \/ SetSelectedModel("m2")
  \/ SendMessage(<<"h">>)
  \/ \E i \in Pending : SendResolve(i, "c1")
  \/ DeliverChunk(<<"a">>, FALSE)
  \/ SearchChats(<<"x">>)
  \/ LoadChat("c2")
  \/ \E i \in Pending : LoadReject(i, "e1")
  \/ StartNewChat

SpecLeave == Init /\ [][NextLeave]_vars

\* The chat session: the operations of the view and the answers of the backend
\* to the calls they make.
Next ==
  \/ \E l \in ModelLists : ModelsResolve(l)
  \/ SetInputValue(<<WS, "h", WS>>)
  \/ WorkspaceRefreshed({"w1"}, "w1")
  \/ \E i \in Pending : HistoryResolve(i, <<>>)
  \/ \E t \in Texts : SendMessage(t)
  \/ \E i \in Pending, c \in ChatIds : SendResolve(i, c)
  \/ \E i \in Pending, e \in Errors : SendReject(i, e)
  \/ StartNewChat
  \/ ResetChat
  \/ LoadChat("c2")
  \/ \E i \in Pending, a \in MessageArrays : LoadResolve(i, a)
  \/ \E i \in Pending : LoadReject(i, "e1")

Spec == Init /\ [][Next]_vars

\* ---------------------------------------------------------------- properties

\* The listeners that act on an event: registered on the bridge, flag not set.
EffectiveChunk == {s \in Setups : chunkReg[s] = "on" /\ ~cancelled[s]}
EffectiveError == {s \in Setups : errorReg[s] = "on" /\ ~cancelled[s]}

UserMessage(text) == [role |-> "user", content |-> text]
AssistantMessage(text) == [role |-> "assistant", content |-> text]

\* C1: through every setup / cleanup / re-setup of the effect, wherever the cleanup
\* falls, at most one chunk handler and at most one error handler is effective, and
\* a chunk event with done = false that reaches an effective handler extends the
\* accumulator by its content exactly once.
C1_AtMostOneEffectiveHandler ==
  /\ [](Cardinality(EffectiveChunk) <= 1 /\ Cardinality(EffectiveError) <= 1)
  /\ [][(last'.op = "chunk" /\ ~last'.done /\ EffectiveChunk # {})
          => streamingContentRef' = streamingContentRef \o last'.content]_vars

\* A chunk reached the listeners of a cleaned-up run (still pending) and of the run
\* that followed it, and the accumulator holds it once.
C1_Witness ==
  /\ last.op = "chunk" /\ ~last.done
  /\ cancelled[1] /\ chunkReg[1] = "on"
  /\ ~cancelled[2] /\ chunkReg[2] = "on"
  /\ streamingContentRef = <<"a">>

\* C2: a run of the effect cleaned up while a listen() was pending has both its
\* listeners unlistened once its listen() calls have resolved, and an event that
\* reaches only listeners of cleaned-up runs changes nothing in the controller;
\* next to a live listener they add nothing to its one commit.
C2_CancelledSetupLeavesNoListener ==
  /\ [](\A s \in Setups :
          cancelled[s] /\ pc[s] = "done" => chunkReg[s] = "off" /\ errorReg[s] = "off")
  /\ [][/\ (last'.op = "chunk" /\ EffectiveChunk = {}) => UNCHANGED <<ctrl, calls>>
        /\ (last'.op = "error" /\ EffectiveError = {}) => UNCHANGED <<ctrl, calls>>
        /\ (last'.op = "chunk" /\ last'.done /\ EffectiveChunk # {})
             => Len(messages') = Len(messages) + 1]_vars

\* Run 1 was cleaned up before its first listen() resolved; the listen() has
\* resolved since, the listener is still on the bridge, and a chunk reached it.
C2_Witness ==
  /\ last.op = "chunk"
  /\ cancelled[1] /\ pc[1] = "awaitError" /\ chunkReg[1] = "on"
  /\ EffectiveChunk = {}
  /\ streamingContentRef = <<>> /\ messages = <<>>

\* C3 as stated: while the effect is mounted there is exactly one live chunk
\* subscription and exactly one live error subscription.
C3_ExactlyOneLiveSubscription ==
  mounted # 0 => Cardinality(EffectiveChunk) = 1 /\ Cardinality(EffectiveError) = 1

\* C3 as amended: never two effective subscriptions of a kind; exactly one of each
\* from the moment both listen() calls of the mounted run have resolved until its
\* cleanup; none of that kind before the run has called its listen(), and none
\* between a cleanup and the next run.
C3_OneLiveSubscriptionOnceResolved ==
  /\ Cardinality(EffectiveChunk) <= 1 /\ Cardinality(EffectiveError) <= 1
  /\ mounted # 0 /\ pc[mounted] = "done"
       => EffectiveChunk = {mounted} /\ EffectiveError = {mounted}
  /\ mounted # 0 /\ pc[mounted] = "awaitChunk" => EffectiveError = {}
  /\ mounted = 0 => EffectiveChunk = {} /\ EffectiveError = {}

\* Run 2 is complete while the listen() of the cleaned-up run 1 is still pending.
C3_Witness ==
  /\ mounted = 2 /\ pc[2] = "done"
  /\ cancelled[1] /\ pc[1] # "done" /\ chunkReg[1] = "on"

\* C4: a chunk event that reaches the live handler with done = false appends its
\* content to the accumulator and leaves the message list alone; with done = true
\* it appends one assistant message holding the accumulated text followed by its
\* content, empties the accumulator and the streaming text and clears isStreaming.
\* Hence chunks c1..cn, only cn done, from an empty accumulator, give one
\* assistant message c1 ... cn.
C4_DoneCommitsAccumulatedText ==
  [][(last'.op = "chunk" /\ EffectiveChunk # {})
       => IF ~last'.done
            THEN /\ streamingContentRef' = streamingContentRef \o last'.content
                 /\ messages' = messages
            ELSE /\ messages' = Append(messages,
                        AssistantMessage(streamingContentRef \o last'.content))
                 /\ streamingContentRef' = <<>>
                 /\ streamingContent' = <<>>
                 /\ isStreaming' = FALSE]_vars

\* "a" then "b" with done: the reply "ab" follows the user message.
C4_Witness ==
  /\ last.op = "chunk" /\ last.done /\ last.content = <<"b">>
  /\ messages = <<UserMessage(<<"h">>), AssistantMessage(<<"a", "b">>)>>
  /\ streamingContentRef = <<>>
  /\ ~isStreaming

\* C5: sendMessage(text) with text blank after trim, or while isStreaming, or with
\* no model selected, issues no call and changes nothing of the controller.
C5_SendGuardIsNoOp ==
  [][(last'.op = "sendMessage"
        /\ (Trim(last'.text) = <<>> \/ isStreaming \/ selectedModel = ""))
       => UNCHANGED <<ctrl, calls>>]_vars

\* A non-blank text with a model selected was refused because a reply is streaming.
C5_Witness ==
  /\ last.op = "sendMessage" /\ last.early
  /\ Trim(last.text) # <<>>
  /\ selectedModel # ""
  /\ isStreaming

\* C6: an accepted sendMessage(text) has, at its await, cleared the error, set
\* isStreaming, emptied the accumulator and the streaming text, appended the user
\* message with the trimmed text at the end of the list, cleared the input, and
\* issued one send_chat_message call with the current chat id, the selected
\* model, the trimmed text and the active workspace id (null for none).
C6_AcceptedSend ==
  [][(last'.op = "sendMessage"
        /\ Trim(last'.text) # <<>> /\ ~isStreaming /\ selectedModel # "")
       => /\ error' = NULL
          /\ isStreaming' = TRUE
          /\ streamingContentRef' = <<>>
          /\ streamingContent' = <<>>
          /\ messages' = Append(messages, UserMessage(Trim(last'.text)))
          /\ inputValue' = <<>>
          /\ sendCalls' = Append(sendCalls,
               [chatId |-> currentChatId, model |-> selectedModel,
                message |-> Trim(last'.text),
                workspaceId |-> IF activeWorkspaceId = "" THEN NULL
                                ELSE activeWorkspaceId])
          /\ UNCHANGED <<models, selectedModel, currentChatId, chatHistory,
                         searchQuery, searchResults, loadCalls, refreshCalls>>]_vars

\* " h " was sent in an open chat, in a workspace, after a message already listed.
C6_Witness ==
  /\ last.op = "sendMessage" /\ ~last.early /\ last.text = <<WS, "h", WS>>
  /\ Len(messages) = 2 /\ messages[2] = UserMessage(<<"h">>)
  /\ inputValue = <<>>
  /\ Len(sendCalls) = 1
  /\ sendCalls[1].chatId # NULL /\ sendCalls[1].workspaceId = "w1"
  /\ sendCalls[1].message = <<"h">>

\* C7: when send_chat_message resolves, currentChatId is the chat id it returned,
\* whatever ran since the call was issued.
C7_LateSendResponseSetsChatId ==
  last.op = "sendResolve" => currentChatId = last.chatId

\* The answer arrived after startNewChat (or a load of an empty chat followed by
\* a failure) had ended the session: no message listed, not streaming.
C7_Witness ==
  /\ last.op = "sendResolve"
  /\ messages = <<>> /\ ~isStreaming
  /\ currentChatId = last.chatId

\* C8: when send_chat_message rejects, the error slot holds the failure text and
\* isStreaming is false; the message list and currentChatId are as they were.
C8_SendFailureKeepsUserMessage ==
  [][last'.op = "sendReject"
       => /\ error' = last'.error
          /\ isStreaming' = FALSE
          /\ messages' = messages
          /\ currentChatId' = currentChatId]_vars

\* The call failed and the user message it was issued for is still the last one.
C8_Witness ==
  /\ last.op = "sendReject" /\ error = last.error /\ ~isStreaming
  /\ messages # <<>> /\ messages[Len(messages)] = UserMessage(<<"h">>)

\* C9: an error event that reaches the live handler leaves the error slot equal to
\* the event's error, isStreaming false, the accumulator and the streaming text
\* empty and the message list as it was.
C9_StreamErrorDropsPartial ==
  [][(last'.op = "error" /\ EffectiveError # {})
       => /\ error' = last'.error
          /\ isStreaming' = FALSE
          /\ streamingContentRef' = <<>>
          /\ streamingContent' = <<>>
          /\ messages' = messages]_vars

\* The error event found a partial reply; only the user message is listed.
C9_Witness ==
  /\ last.op = "error" /\ last.partial # <<>>
  /\ EffectiveError # {}
  /\ error = last.error
  /\ messages = <<UserMessage(<<"h">>)>>
  /\ streamingContentRef = <<>>

\* C10: when get_chat_messages resolves for loadChat(id), the message list is the
\* returned array and currentChatId is id.
C10_LoadReplacesMessages ==
  last.op = "loadResolve" => messages = last.returned /\ currentChatId = last.chatId

\* A chat with one message was loaded over the user message of a send in flight.
C10_Witness ==
  /\ last.op = "loadResolve"
  /\ isStreaming /\ Len(sendCalls) = 1
  /\ last.returned = <<UserMessage(<<"h">>)>>
  /\ messages = last.returned
  /\ currentChatId = "c2"

\* C11 as stated: when get_chat_messages resolves for loadChat(id), the accumulator
\* and the streaming text are empty, isStreaming is false, the error slot is null
\* and the search state is cleared (query empty, results null).
C11_LoadClearsStreamingErrorSearch ==
  last.op = "loadResolve"
    => /\ streamingContentRef = <<>>
       /\ streamingContent = <<>>
       /\ isStreaming = FALSE
       /\ error = NULL
       /\ searchQuery = <<>>
       /\ searchResults = NoResults

\* C12: when get_chat_messages rejects for loadChat(id), the error slot holds the
\* failure text, the message list, currentChatId, selectedModel and the
\* accumulator are as they were, and nothing is thrown to the caller.
C12_LoadFailureRecordsError ==
  [][last'.op = "loadReject"
       => /\ error' = last'.error
          /\ ~last'.thrown
          /\ UNCHANGED <<messages, currentChatId, selectedModel, streamingContentRef,
                         streamingContent, isStreaming>>]_vars

\* The load failed over an open chat with a partial reply in the accumulator.
C12_Witness ==
  /\ last.op = "loadReject" /\ error = "e1"
  /\ messages # <<>> /\ currentChatId # NULL /\ currentChatId # last.chatId
  /\ streamingContentRef # <<>>
  /\ isStreaming

\* C13 as stated: when get_chat_messages resolves for loadChat(id), selectedModel
\* is the model_used of the entry for id of the chat-history cache when the cache
\* has one, and is unchanged when the cache has none.
C13_LoadRestoresModelFromCache ==
  [][last'.op = "loadResolve"
       => IF \E k \in DOMAIN chatHistory : chatHistory[k].id = last'.chatId
            THEN \E k \in DOMAIN chatHistory :
                   /\ chatHistory[k].id = last'.chatId
                   /\ \A j \in 1..(k - 1) : chatHistory[j].id # last'.chatId
                   /\ selectedModel' = chatHistory[k].model_used
            ELSE selectedModel' = selectedModel]_vars

\* C14: startNewChat() leaves the message list empty, currentChatId null, the
\* accumulator and the streaming text empty, the error slot null and the search
\* state cleared, issues no backend call and leaves the chat-history cache, the
\* model list and selectedModel as they were.
C14_StartNewChatClearsSession ==
  [][last'.op = "startNewChat"
       => /\ messages' = <<>>
          /\ currentChatId' = NULL
          /\ streamingContentRef' = <<>>
          /\ streamingContent' = <<>>
          /\ error' = NULL
          /\ searchQuery' = <<>>
          /\ searchResults' = NoResults
          /\ UNCHANGED <<calls, chatHistory, models, selectedModel>>]_vars

\* A new chat was started over a send in flight and a load in flight.
C14_Witness ==
  /\ last.op = "startNewChat"
  /\ Len(sendCalls) = 1 /\ Len(loadCalls) = 1 /\ streams = 1
  /\ selectedModel = "m2"
  /\ messages = <<>> /\ currentChatId = NULL /\ error = NULL
  /\ streamingContentRef = <<>> /\ searchQuery = <<>> /\ searchResults = NoResults

\* C17 as stated: a send_chat_message call is issued only when no reply stream
\* started before is still running (every stream started has had its done event
\* or its error event).
C17_OneStreamAtATime ==
  [][(last'.op = "sendMessage" /\ ~last'.early) => streams = 0]_vars

\* C18 as stated: only a done event, an error event, startNewChat and a successful
\* loadChat empty the accumulator.
C18_FourEventsResetAccumulator ==
  [][(streamingContentRef # <<>> /\ streamingContentRef' = <<>>)
       => \/ last'.op = "chunk" /\ last'.done
          \/ last'.op = "error"
          \/ last'.op = "startNewChat"
          \/ last'.op = "loadResolve"]_vars

\* C18 as amended: the accumulator is emptied by a done event and by an error event
\* (at the live handler), by startNewChat, by a successful loadChat, by an accepted
\* sendMessage and by resetChatState, and by no other operation.
C18_SixEventsResetAccumulator ==
  [][LET resetting ==
           \/ last'.op = "chunk" /\ last'.done /\ EffectiveChunk # {}
           \/ last'.op = "error" /\ EffectiveError # {}
           \/ last'.op = "startNewChat"
           \/ last'.op = "loadResolve"
           \/ last'.op = "sendMessage" /\ ~last'.early
           \/ last'.op = "resetChatState"
     IN /\ (streamingContentRef # <<>> /\ streamingContentRef' = <<>>) => resetting
        /\ resetting => streamingContentRef' = <<>>]_vars

\* A message was sent while the accumulator held a chunk of the stream of the
\* chat left before: the send emptied it.
C18_Witness ==
  /\ last.op = "sendMessage" /\ ~last.early
  /\ streams = 2
  /\ streamingContentRef = <<>>
  /\ messages = <<UserMessage(<<"h">>)>>

\* C15 as stated: searchChats(q) with q blank or with no active workspace stores q
\* as the query, sets the results to null and issues no call; and while the query
\* is blank the results stay null, also when the response of an earlier search
\* arrives.
C15_BlankSearchYieldsNull ==
  [][/\ ((last'.op = "searchChats"
            /\ (Trim(last'.query) = <<>> \/ activeWorkspaceId = ""))
           => (/\ searchQuery' = last'.query
               /\ searchResults' = NoResults
               /\ UNCHANGED calls))
      /\ ((last'.op = "searchResolve" /\ Trim(searchQuery) = <<>>)
           => searchResults' = NoResults)]_vars

\* C16: searchChats(q) with q non-blank and a workspace active stores q as the
\* query and issues one search_chats call with the active workspace id and q; when
\* the call resolves the results are the returned array (the empty array for no
\* match, which is not null); when it rejects the results are null.
C16_SearchStoresResults ==
  [][/\ ((last'.op = "searchChats"
            /\ Trim(last'.query) # <<>> /\ activeWorkspaceId # "")
           => (/\ searchQuery' = last'.query
               /\ searchCalls' = Append(searchCalls,
                    [workspaceId |-> activeWorkspaceId, query |-> last'.query])
               /\ UNCHANGED <<sendCalls, loadCalls, refreshCalls, historyCalls>>))
      /\ (last'.op = "searchResolve"
           => (searchResults' = Results(last'.returned)
               /\ searchResults' # NoResults))
      /\ (last'.op = "searchReject" => searchResults' = NoResults)]_vars

\* A search of the active workspace came back with no match: the results are the
\* empty array.
C16_Witness ==
  /\ last.op = "searchResolve" /\ last.returned = <<>>
  /\ activeWorkspaceId = "w1"
  /\ searchQuery = last.query /\ Trim(searchQuery) # <<>>
  /\ searchResults = Results(<<>>)

\* The transient state of the chat session is reset: no messages, no current
\* chat, nothing accumulated, not streaming, no search.
TransientStateCleared ==
  /\ messages = <<>>
  /\ currentChatId = NULL
  /\ streamingContentRef = <<>>
  /\ streamingContent = <<>>
  /\ isStreaming = FALSE
  /\ searchQuery = <<>>
  /\ searchResults = NoResults

\* C19 as stated: when the handler of a workspace switch, creation or deletion has
\* ended, whether its calls succeeded or failed, the transient state of the chat
\* session is reset.
C19_WorkspaceActionResetsChat ==
  last.op = "workspaceDone" => TransientStateCleared

\* C20 as stated: when the active workspace was deleted and the handler has ended
\* (also with the refresh after the delete failing), the active workspace id is
\* that of a workspace of the refreshed list, which no longer has the deleted
\* one, and the transient state of the chat session is reset.
C20_DeleteActiveLeavesValidActive ==
  (last.op = "workspaceDone" /\ last.kind = "delete" /\ last.ok /\ last.wasActive)
    => /\ activeWorkspaceId \in workspaces
       /\ last.id \notin workspaces
       /\ TransientStateCleared

\* C21 as stated: once the workspace list has been loaded (refreshWorkspaces
\* succeeded once), the active workspace id is the id of a workspace of the cached
\* list, whatever switches, creations, renames and deletions ran and whichever of
\* their calls failed.
C21_ActiveWorkspaceIsListed ==
  workspaces # {} => activeWorkspaceId \in workspaces

C22_MoveChangesFolder ==
  [][(/\ last'.op = "chatActionDone" /\ last'.kind = "move"
      /\ ~Falsy(last'.from) /\ last'.from # last'.to
      /\ last'.failed = "")
     => /\ last'.chatId \notin Ids(InFolder(chatHistory', last'.from))
        /\ last'.chatId \in Ids(InFolder(chatHistory', last'.to))
        /\ last'.chatId \notin Ids(Loose(chatHistory'))]_vars

\* C22 (as the code has it): when moveChatToFolderAction returns after its remove,
\* add and refresh succeeded, the cache is the list the backend answered the
\* refresh with; the chat is in chatsByFolder(B), not in chatsByFolder(A) and not
\* loose when the backend still has it in B at that moment, that is, when no other
\* action moved it in between.
C22_MoveShowsBackendFolder ==
  [][(/\ last'.op = "chatActionDone" /\ last'.kind = "move"
      /\ ~Falsy(last'.from) /\ last'.from # last'.to
      /\ last'.failed = "")
     => /\ chatHistory' = backendChats'
        /\ (last'.chatId \in Ids(InFolder(backendChats', last'.to))
             => /\ last'.chatId \notin Ids(InFolder(chatHistory', last'.from))
                /\ last'.chatId \in Ids(InFolder(chatHistory', last'.to))
                /\ last'.chatId \notin Ids(Loose(chatHistory')))]_vars

\* Chat c1 was moved from folder fA to folder fB.
C22_Witness ==
  /\ last.op = "chatActionDone" /\ last.kind = "move" /\ last.failed = ""
  /\ last.chatId = "c1" /\ last.from = "fA" /\ last.to = "fB"
  /\ last.issued = <<"remove_chat_from_folder_cmd", "add_chat_to_folder",
                     "get_chats_for_workspace">>
  /\ Ids(chatsByFolder("fB")) = {"c1"}
  /\ Ids(chatsByFolder("fA")) = {}
  /\ Ids(looseChats) = {"c2"}

LooseAt == {k \in DOMAIN chatHistory : chatHistory[k].folder_id = NULL}
FolderAt(f) == {k \in DOMAIN chatHistory : chatHistory[k].folder_id = f}
Range(list) == {list[k] : k \in DOMAIN list}

\* C24: in every state looseChats is exactly the cached chats with no folder_id
\* and chatsByFolder(f) exactly the cached chats whose folder_id is f, each chat
\* once, and every cached chat is in exactly one of looseChats and
\* chatsByFolder(its folder_id).
C24_ViewsAreProjections ==
  /\ Range(looseChats) = {chatHistory[k] : k \in LooseAt}
  /\ Len(looseChats) = Cardinality(LooseAt)
  /\ \A f \in FolderIds :
        /\ Range(chatsByFolder(f)) = {chatHistory[k] : k \in FolderAt(f)}
        /\ Len(chatsByFolder(f)) = Cardinality(FolderAt(f))
  /\ \A k \in DOMAIN chatHistory :
        LET c == chatHistory[k]
        IN IF c.folder_id = NULL
           THEN /\ c \in Range(looseChats)
                /\ \A f \in FolderIds : c \notin Range(chatsByFolder(f))
           ELSE /\ c.folder_id \in FolderIds
                /\ c \in Range(chatsByFolder(c.folder_id))
                /\ c \notin Range(looseChats)
                /\ \A f \in FolderIds \ {c.folder_id} : c \notin Range(chatsByFolder(f))

\* The cache has chat c1 in folder fB and chat c2 in no folder.
C24_Witness ==
  /\ Len(chatHistory) = 2
  /\ chatsByFolder("fB") = <<ChatInFolder("c1", "m1", "fB")>>
  /\ chatsByFolder("fA") = <<>>
  /\ looseChats = <<ChatMeta("c2", "m1")>>

\* C26: a chat action never throws to its caller, and when one of its backend
\* calls failed the failure text is in the error slot when it returns.
C26_ChatActionRecordsFailure ==
  [][(last'.op = "chatActionDone")
     => /\ ~last'.thrown
        /\ (last'.failed # "" => (last'.error # NULL /\ error' = last'.error))]_vars

\* C30: when a chat action returns after successful backend calls the chat-history
\* cache is the backend's list, and for deleteChatAction, moveChatToFolderAction
\* and removeChatFromFolderAction the folder cache is the backend's folder list
\* with no get_folders_for_workspace call still pending.
C30_NoRefreshPendingAtReturn ==
  [][(last'.op = "chatActionDone" /\ last'.failed = "")
     => /\ chatHistory' = backendChats'
        /\ (last'.kind \in {"delete", "move", "remove"}
             => (folderCalls' = <<>> /\ folders' = backendFolders'))]_vars

\* The texts the backend fails with in the slices.
ErrorTexts == {"e1", "e2"}

C29_SearchFailureIsRecorded ==
  [][last'.op = "searchReject" => error' # NULL]_vars

\* Both listeners of a run of the effect that was not cleaned up are registered.
SubscriptionLive == EffectiveChunk # {} /\ EffectiveError # {}

\* C27: startNewChat() leaves isStreaming false; sendMessage("hi") called next,
\* with a model selected, is accepted and sets isStreaming true (a rejected call
\* ends in the catch of sendMessage, nothing is thrown); and with the subscription
\* live, a backend that ends every send with a rejection, an error event or a
\* done event brings isStreaming back to false.
C27_NewChatThenSendStreamsAndEnds ==
  /\ [][/\ last'.op = "startNewChat" => ~isStreaming'
        /\ (/\ last.op = "startNewChat" /\ last'.op = "sendMessage"
            /\ last'.text = <<"h", "i">> /\ selectedModel # "")
           => (~last'.early /\ isStreaming')
        /\ last'.op = "sendReject" => ~isStreaming']_vars
  /\ ((isStreaming /\ SubscriptionLive) ~> ~isStreaming)

\* The message sent right after startNewChat() is streaming its reply over a live
\* subscription.
C27_Witness ==
  /\ last.op = "sendMessage" /\ ~last.early
  /\ messages = <<UserMessage(<<"h", "i">>)>>
  /\ currentChatId = NULL
  /\ isStreaming /\ SubscriptionLive

\* C31: the cached workspace list and the active id change only in a step that
\* stores the answer of get_all_workspaces (refreshWorkspaces), never by a local
\* patch of a workspace action.
C31_WorkspaceStateOnlyFromRefresh ==
  [][(activeWorkspaceId' # activeWorkspaceId \/ workspaces' # workspaces)
     => \/ last'.op \in {"workspace", "workspacesResolve"}
        \/ (last'.op = "workspaceDone" /\ last'.kind = "rename")]_vars

\* C32: when the refresh chain of a done event writes the cache, with a workspace
\* active in the view, it writes the chats of the workspace that is active at
\* that moment.
C32_DoneRefreshShowsActiveWorkspace ==
  [][(last'.op = "refresh" /\ chatHistory' # chatHistory /\ activeWorkspaceId' # "")
     => chatHistory' = ChatsOf(activeWorkspaceId')]_vars

\* C33: with a workspace active, its effects run and no backend call pending, the
\* chat-history cache is the backend's chats of the active workspace and the
\* folder cache the backend's folders of it.
C33_CachesFollowActiveWorkspace ==
  (/\ activeWorkspaceId # "" /\ folderWs = activeWorkspaceId
   /\ historyCalls = <<>> /\ refreshCalls = <<>> /\ folderCalls = <<>>
   /\ wsOps = <<>> /\ folderOps = <<>> /\ chatOps = <<>>)
  => /\ chatHistory = ChatsOf(activeWorkspaceId)
     /\ folders = FoldersOf(activeWorkspaceId)

\* C34: every cached chat with a folder_id references a folder of the folder
\* cache; here in the state in which deleteFolderAction has returned and
\* handleDeleteFolder has yet to refresh the chat history.
C34_CachedChatsReferenceCachedFolders ==
  (last.op = "folderActionDone" /\ last.kind = "delete" /\ last.refreshed)
  => \A k \in DOMAIN chatHistory :
       ~Falsy(chatHistory[k].folder_id) => chatHistory[k].folder_id \in Ids(folders)

C36_DeleteClosesOnlyTheDeletedChat ==
  [][(last'.op = "chatActionDone" /\ last'.kind = "delete" /\ last'.failed = "")
     => /\ (currentChatId = last'.chatId
            => (messages' = <<>> /\ currentChatId' = NULL))
        /\ (currentChatId # last'.chatId
            => (messages' = messages /\ currentChatId' = currentChatId))
        /\ last'.chatId \notin Ids(chatHistory')]_vars

\* C37: in every state the visible streaming text equals the accumulator.
C37_VisibleTextIsAccumulator == streamingContent = streamingContentRef

\* Two chunks of a reply have arrived and both are shown.
C37_Witness ==
  /\ last.op = "chunk" /\ ~last.done
  /\ isStreaming
  /\ streamingContentRef = <<"a", "a">>
  /\ streamingContent = <<"a", "a">>

\* C38: while a reply stream is running at the backend, no step leaves the view
\* with isStreaming false and text in the accumulator.
C38_IdleMeansEmptyAccumulator ==
  [][(streams > 0 /\ ~isStreaming') => streamingContentRef' = <<>>]_vars

\* C39: a chunk event of a stream that is still running at the backend, arriving
\* when the chat on display is not waiting for a reply (a new chat was started, a
\* chat loaded or the chat state reset meanwhile), changes neither the
\* accumulator nor the message list.
C39_ChunksOfALeftChatAreDropped ==
  [][(last'.op = "chunk" /\ streams > 0 /\ ~isStreaming)
     => (messages' = messages /\ streamingContentRef' = streamingContentRef)]_vars

\* C40: when a search_chats response is stored and no search call is left
\* pending, it is the response to the current searchQuery.
C40_ResultsAnswerCurrentQuery ==
  [][(last'.op = "searchResolve" /\ searchCalls' = <<>>)
     => (searchResults' # NoResults => last'.query = searchQuery')]_vars

====
